---- MODULE Spec2Model ----
(***************************************************************************)
(* A model of the QR recognition pipeline of qr-core:                      *)
(*   - QRDecoder::decode, the decode ladder        (decoding.rs)           *)
(*   - QRScanner::scan_image, the scan pipeline     (lib.rs)               *)
(*   - QRDetector::find_finder_patterns, the finder scanline machine       *)
(*                                                  (detection.rs)         *)
(*   - EmvData::validate_crc / PaymentParser::parse (emv.rs, payment.rs)   *)
(* Each part has its own specification over its own variables; the other   *)
(* parts' variables stay at their idle values.                             *)
(*                                                                         *)
(* Texts are TLA+ strings, used as sequences of ASCII characters (Len,     *)
(* SubSeq and \o act on them); over ASCII a Rust str's byte length is its  *)
(* character count.                                                        *)
(***************************************************************************)
EXTENDS Integers, Sequences, FiniteSets, TLC

VARIABLES
    \* QRDecoder::decode
    d_img,      \* the image handed to decode: [w, h, otsu]
    d_pc,       \* index (from 1) of the next provider call of the ladder
    d_log,      \* the provider calls made so far: <<[image, provider], ...>>
    d_last,     \* what the last provider call returned
    d_ret,      \* what decode returned, NoneVal while it runs
    \* QRScanner::scan_image
    s_phase,    \* "start", "preprocessed", "loop", "finish", "done"
    s_gray,     \* the input image: [w, h]
    s_processed,\* processor.process(gray): [w, h]
    s_cands,    \* the regions extract_qr gave for the accepted triples
    s_detected, \* detector.detect(&processed)
    s_idx,      \* index (from 0) of the next region of the loop
    s_qr_codes, \* qr_codes
    s_best_payment_score,
    s_best_payment_idx,
    s_decoded,  \* the decoder.decode calls made: <<[image, result], ...>>
    s_result,   \* what scan_image returned, NoneVal while it runs
    \* QRDetector::find_finder_patterns
    f_phase,    \* "scan" while the rows are scanned, then "done"
    f_img,      \* the image: a sequence of rows of pixel values
    f_x,        \* column of the next pixel
    f_y,        \* row of the next pixel
    f_state_count,
    f_current_state,
    f_patterns, \* patterns pushed so far
    f_checked,  \* the state_count arrays check_ratio was called on by the scan
    f_result,   \* what find_finder_patterns returned, NoneVal while it runs
    \* EMV payloads: EmvData::validate_crc and PaymentParser::parse
    e_phase,    \* "body", "sealed" (checksum appended), "tampered"
    e_raw,      \* the payload text
    e_appended, \* how many single characters were appended to the body
    e_prev,     \* the payload before its checksum was tampered with
    e_check,    \* validate_crc(e_raw), NoneVal before the payload is sealed
    e_payment,  \* PaymentParser::parse(e_raw), NoneVal before it is sealed
    \* one run of a function on its own: the CRC loop, the payment parsers,
    \* the geometry helpers
    p_fn,       \* the function that runs, "idle" when none does
    p_in,       \* its input (for the CRC loop: the bytes consumed so far)
    p_out,      \* its result, NoneVal before it returns (for the CRC loop: crc)
    \* QRDecoder::decode on an image and then on its inverse, with providers
    \* that are functions of the image
    i_px,       \* the pixels of the image I
    i_meta,     \* [w, h, otsu, otsu_inverted] of I and invert(I)
    i_run,      \* 1: decode(I) runs, 2: decode(invert(I)) runs, 3: both returned
    i_pc,       \* index (from 1) of the next provider call of the running decode
    i_memo,     \* what the providers answered: {[provider, image, outcome]}
    i_ret       \* <<what decode(I) returned, what decode(invert(I)) returned>>

decodeVars == <<d_img, d_pc, d_log, d_last, d_ret>>

scanVars == <<s_phase, s_gray, s_processed, s_cands, s_detected, s_idx,
              s_qr_codes, s_best_payment_score, s_best_payment_idx,
              s_decoded, s_result>>

finderVars == <<f_phase, f_img, f_x, f_y, f_state_count, f_current_state,
                f_patterns, f_checked, f_result>>

emvVars == <<e_phase, e_raw, e_appended, e_prev, e_check, e_payment>>

pureVars == <<p_fn, p_in, p_out>>

invVars == <<i_px, i_meta, i_run, i_pc, i_memo, i_ret>>

vars == <<decodeVars, scanVars, finderVars, emvVars, pureVars, invVars>>

\* what the actions of one part leave alone
notDecode == <<scanVars, finderVars, emvVars, pureVars, invVars>>
notScan == <<decodeVars, finderVars, emvVars, pureVars, invVars>>
notFinder == <<decodeVars, scanVars, emvVars, pureVars, invVars>>
notEmv == <<decodeVars, scanVars, finderVars, pureVars, invVars>>
notPure == <<decodeVars, scanVars, finderVars, emvVars, invVars>>
notInv == <<decodeVars, scanVars, finderVars, emvVars, pureVars>>

-----------------------------------------------------------------------------
(* Option / Result values *)

NoneVal == [tag |-> "None"]
Some(v) == [tag |-> "Some", val |-> v]
Ok(v) == [tag |-> "Ok", val |-> v]
Err(e) == [tag |-> "Err", err |-> e]

-----------------------------------------------------------------------------
(* Text helpers: what the str methods used by the code do on ASCII text *)

Char(s, i) == SubSeq(s, i, i)

Digits == "0123456789"
LowerAlpha == "abcdefghijklmnopqrstuvwxyz"
UpperAlpha == "ABCDEFGHIJKLMNOPQRSTUVWXYZ"

\* 1-based position of the one-character string c in alphabet, 0 if absent
IndexOf(c, alphabet) ==
    IF \E i \in 1..Len(alphabet) : Char(alphabet, i) = c
    THEN CHOOSE i \in 1..Len(alphabet) : Char(alphabet, i) = c
    ELSE 0

IsDigit(c) == IndexOf(c, Digits) # 0
DigitVal(c) == IndexOf(c, Digits) - 1

ToLowerChar(c) ==
    LET i == IndexOf(c, UpperAlpha) IN IF i = 0 THEN c ELSE Char(LowerAlpha, i)

ToUpperChar(c) ==
    LET i == IndexOf(c, LowerAlpha) IN IF i = 0 THEN c ELSE Char(UpperAlpha, i)

RECURSIVE to_lowercase(_)
to_lowercase(s) ==
    IF Len(s) = 0 THEN ""
    ELSE ToLowerChar(Char(s, 1)) \o to_lowercase(SubSeq(s, 2, Len(s)))

RECURSIVE to_uppercase(_)
to_uppercase(s) ==
    IF Len(s) = 0 THEN ""
    ELSE ToUpperChar(Char(s, 1)) \o to_uppercase(SubSeq(s, 2, Len(s)))

starts_with(s, prefix) ==
    Len(s) >= Len(prefix) /\ SubSeq(s, 1, Len(prefix)) = prefix

contains(s, pat) ==
    \E i \in 1..(Len(s) - Len(pat) + 1) : SubSeq(s, i, i + Len(pat) - 1) = pat

\* str::find: 1-based position of the first occurrence of pat, 0 if none
find(s, pat) ==
    IF contains(s, pat)
    THEN CHOOSE i \in 1..(Len(s) - Len(pat) + 1) :
            /\ SubSeq(s, i, i + Len(pat) - 1) = pat
            /\ \A j \in 1..(i - 1) : SubSeq(s, j, j + Len(pat) - 1) # pat
    ELSE 0

\* str::split(sep) for a one-character separator
RECURSIVE split(_, _)
split(s, sep) ==
    LET i == find(s, sep)
    IN  IF i = 0 THEN <<s>>
        ELSE <<SubSeq(s, 1, i - 1)>> \o split(SubSeq(s, i + 1, Len(s)), sep)

RECURSIVE AllDigits(_)
AllDigits(s) ==
    Len(s) = 0 \/ (IsDigit(Char(s, 1)) /\ AllDigits(SubSeq(s, 2, Len(s))))

\* value of a string of decimal digits
RECURSIVE DecimalValue(_)
DecimalValue(s) ==
    IF Len(s) = 0 THEN 0
    ELSE 10 * DecimalValue(SubSeq(s, 1, Len(s) - 1)) + DigitVal(Char(s, Len(s)))

\* str::parse::<usize>(): decimal digits with an optional leading '+'
ParseUsize(s) ==
    LET body == IF Len(s) > 0 /\ Char(s, 1) = "+" THEN SubSeq(s, 2, Len(s)) ELSE s
    IN  IF Len(body) > 0 /\ AllDigits(body) THEN Some(DecimalValue(body)) ELSE NoneVal

RECURSIVE Pow2(_)
Pow2(n) == IF n = 0 THEN 1 ELSE 2 * Pow2(n - 1)

RECURSIVE Pow10(_)
Pow10(n) == IF n = 0 THEN 1 ELSE 10 * Pow10(n - 1)

\* str::parse::<f64>() on an optionally signed decimal numeral with at most one
\* '.', as the rational num/den; every other text of the model's alphabet (no
\* exponent, "inf" or "nan" spellings are drawn) fails to parse.
ParseF64(s) ==
    LET neg == Len(s) > 0 /\ Char(s, 1) = "-"
        signed == Len(s) > 0 /\ (Char(s, 1) = "-" \/ Char(s, 1) = "+")
        body == IF signed THEN SubSeq(s, 2, Len(s)) ELSE s
        dot == find(body, ".")
        ip == IF dot = 0 THEN body ELSE SubSeq(body, 1, dot - 1)
        fp == IF dot = 0 THEN "" ELSE SubSeq(body, dot + 1, Len(body))
    IN  IF Len(ip) + Len(fp) > 0 /\ AllDigits(ip) /\ AllDigits(fp)
        THEN Some([num |-> (IF neg THEN -1 ELSE 1)
                              * (DecimalValue(ip) * Pow10(Len(fp)) + DecimalValue(fp)),
                   den |-> Pow10(Len(fp))])
        ELSE NoneVal

\* f64 division by a positive integer, on num/den
DivBy(q, k) == [num |-> q.num, den |-> q.den * k]

\* HashMap::insert on a map kept as a set of [k, v] entries
MapInsert(m, k, v) == {e \in m : e.k # k} \cup {[k |-> k, v |-> v]}

-----------------------------------------------------------------------------
(* ContentType::detect (lib.rs) *)

detect_content_type(content) ==
    LET content_lower == to_lowercase(content)
    IN  IF starts_with(content_lower, "http://") \/ starts_with(content_lower, "https://")
        THEN IF contains(content_lower, "qr.nspk.ru") \/ contains(content_lower, "pay")
             THEN "Payment" ELSE "Url"
        ELSE IF starts_with(content_lower, "begin:vcard") THEN "VCard"
        ELSE IF starts_with(content_lower, "wifi:") THEN "WiFi"
        ELSE IF starts_with(content_lower, "mailto:") THEN "Email"
        ELSE IF starts_with(content_lower, "tel:") THEN "Phone"
        ELSE IF starts_with(content_lower, "smsto:") \/ starts_with(content_lower, "sms:")
             THEN "Sms"
        ELSE IF starts_with(content_lower, "geo:") THEN "Geo"
        ELSE IF starts_with(content, "00") /\ Len(content) > 50 THEN "Payment"
        ELSE IF starts_with(content_lower, "st.") THEN "Payment"
        ELSE "Text"

-----------------------------------------------------------------------------
(* PaymentParser (payment.rs) *)

DefaultPaymentInfo ==
    [format |-> "Unknown", payee_name |-> NoneVal, payee_id |-> NoneVal,
     account |-> NoneVal, bank |-> NoneVal, bic |-> NoneVal, amount |-> NoneVal,
     currency |-> NoneVal, purpose |-> NoneVal, extra |-> {}]

\* The ASCII payment keywords of relevance_score; its Cyrillic keywords match
\* no ASCII text.
payment_keywords == {"pay", "payment"}

\* relevance_score, in hundredths (1.0 is 100)
relevance_score(content) ==
    LET content_lower == to_lowercase(content)
    IN  IF contains(content_lower, "qr.nspk.ru") THEN 100
        ELSE IF starts_with(content, "00") /\ Len(content) > 50 THEN 95
        ELSE IF starts_with(content_lower, "st.") THEN 90
        ELSE IF \E keyword \in payment_keywords : contains(content_lower, keyword) THEN 60
        ELSE IF contains(content_lower, "bank") THEN 40
        ELSE 0

\* urlencoding::decode: %XX escapes become the character with that code. The
\* texts of the model carry escapes of digits only (%30..%39).
RECURSIVE url_decode(_)
url_decode(s) ==
    IF Len(s) = 0 THEN ""
    ELSE IF /\ Char(s, 1) = "%"
            /\ Len(s) >= 3
            /\ Char(s, 2) = "3"
            /\ IsDigit(Char(s, 3))
         THEN Char(s, 3) \o url_decode(SubSeq(s, 4, Len(s)))
         ELSE Char(s, 1) \o url_decode(SubSeq(s, 2, Len(s)))

sbp_param(info, param) ==
    LET eq_pos == find(param, "=")
        key == SubSeq(param, 1, eq_pos - 1)
        value == SubSeq(param, eq_pos + 1, Len(param))
        k == to_lowercase(key)
    IN  IF eq_pos = 0 THEN info
        ELSE IF k = "sum"
             THEN IF ParseF64(value) # NoneVal
                  THEN [info EXCEPT !.amount = Some(DivBy(ParseF64(value).val, 100))]
                  ELSE info
        ELSE IF k = "cur" THEN [info EXCEPT !.currency = Some(value)]
        ELSE IF k = "bank" THEN [info EXCEPT !.bank = Some(value)]
        ELSE IF k = "name" THEN [info EXCEPT !.payee_name = Some(url_decode(value))]
        ELSE IF k = "purpose" THEN [info EXCEPT !.purpose = Some(url_decode(value))]
        ELSE [info EXCEPT !.extra = MapInsert(@, key, value)]

RECURSIVE sbp_params(_, _)
sbp_params(info, params) ==
    IF params = <<>> THEN info
    ELSE sbp_params(sbp_param(info, Head(params)), Tail(params))

parse_sbp(content) ==
    LET info0 == [DefaultPaymentInfo EXCEPT !.format = "SbpRussia",
                                            !.currency = Some("RUB")]
        query_start == find(content, "?")
        info1 == IF query_start # 0
                 THEN sbp_params(info0,
                        split(SubSeq(content, query_start + 1, Len(content)), "&"))
                 ELSE info0
        path_start == find(content, "nspk.ru/")
        path == SubSeq(content, path_start + 8, Len(content))
        id_end == IF find(path, "?") = 0 THEN Len(path) ELSE find(path, "?") - 1
    IN  Some(IF path_start # 0
             THEN [info1 EXCEPT !.payee_id = Some(SubSeq(path, 1, id_end))]
             ELSE info1)

\* st_part taking Sum as it is written
st_part_major_units(info, part) ==
    LET eq_pos == find(part, "=")
        key == SubSeq(part, 1, eq_pos - 1)
        value == SubSeq(part, eq_pos + 1, Len(part))
    IN  IF eq_pos # 0 /\ key = "Sum" /\ ParseF64(value) # NoneVal
        THEN [info EXCEPT !.amount = ParseF64(value)]
        ELSE info

st_part(info, part) ==
    LET eq_pos == find(part, "=")
        key == SubSeq(part, 1, eq_pos - 1)
        value == SubSeq(part, eq_pos + 1, Len(part))
    IN  IF eq_pos = 0 THEN info
        ELSE IF key = "Name" THEN [info EXCEPT !.payee_name = Some(value)]
        ELSE IF key = "PersonalAcc" THEN [info EXCEPT !.account = Some(value)]
        ELSE IF key = "BankName" THEN [info EXCEPT !.bank = Some(value)]
        ELSE IF key = "BIC" THEN [info EXCEPT !.bic = Some(value)]
        ELSE IF key = "Sum"
             THEN IF ParseF64(value) # NoneVal
                  THEN [info EXCEPT !.amount = Some(DivBy(ParseF64(value).val, 100))]
                  ELSE info
        ELSE IF key = "Purpose" THEN [info EXCEPT !.purpose = Some(value)]
        ELSE IF key = "PayeeINN" THEN [info EXCEPT !.payee_id = Some(value)]
        ELSE [info EXCEPT !.extra = MapInsert(@, key, value)]

RECURSIVE st_parts(_, _)
st_parts(info, parts) ==
    IF parts = <<>> THEN info
    ELSE st_parts(st_part(info, Head(parts)), Tail(parts))

parse_st(content) ==
    Some(st_parts([DefaultPaymentInfo EXCEPT !.format = "StRussia",
                                             !.currency = Some("RUB")],
                  split(content, "|")))

currency_code_to_string(code) ==
    IF code = "643" THEN "RUB"
    ELSE IF code = "840" THEN "USD"
    ELSE IF code = "978" THEN "EUR"
    ELSE IF code = "156" THEN "CNY"
    ELSE IF code = "392" THEN "JPY"
    ELSE IF code = "826" THEN "GBP"
    ELSE code

\* emv_field taking tag 54 as minor units
emv_field_minor_units(info, tag, value) ==
    IF tag = "54" /\ ParseF64(value) # NoneVal
    THEN [info EXCEPT !.amount = Some(DivBy(ParseF64(value).val, 100))]
    ELSE info

emv_field(info, tag, value) ==
    IF tag = "00" \/ tag = "01" THEN info
    ELSE IF tag = "52" THEN [info EXCEPT !.extra = MapInsert(@, "mcc", value)]
    ELSE IF tag = "53" THEN [info EXCEPT !.currency = Some(currency_code_to_string(value))]
    ELSE IF tag = "54" THEN [info EXCEPT !.amount = ParseF64(value)]
    ELSE IF tag = "58" THEN [info EXCEPT !.extra = MapInsert(@, "country", value)]
    ELSE IF tag = "59" THEN [info EXCEPT !.payee_name = Some(value)]
    ELSE IF tag = "60" THEN [info EXCEPT !.extra = MapInsert(@, "city", value)]
    ELSE IF starts_with(tag, "26") \/ starts_with(tag, "27")
         THEN [info EXCEPT !.account = Some(value)]
    ELSE info

\* The TLV loop of parse_emv from 0-based offset pos: None when a length field
\* does not parse (`.ok()?`), else the fields gathered when the loop ends.
RECURSIVE emv_walk(_, _, _)
emv_walk(content, pos, info) ==
    IF pos + 4 > Len(content) THEN Some(info)
    ELSE LET tag == SubSeq(content, pos + 1, pos + 2)
             len == ParseUsize(SubSeq(content, pos + 3, pos + 4))
         IN  IF len = NoneVal THEN NoneVal
             ELSE IF pos + 4 + len.val > Len(content) THEN Some(info)
             ELSE emv_walk(content, pos + 4 + len.val,
                           emv_field(info, tag,
                                     SubSeq(content, pos + 5, pos + 4 + len.val)))

parse_emv(content) ==
    emv_walk(content, 0, [DefaultPaymentInfo EXCEPT !.format = "EmvQR"])

\* payment.rs:88  content.len() > 50
EmvMinLen == 50

\* PaymentParser::parse
parse(content) ==
    IF starts_with(content, "https://qr.nspk.ru") \/ starts_with(content, "http://qr.nspk.ru")
    THEN parse_sbp(content)
    ELSE IF starts_with(content, "ST.") \/ starts_with(content, "st.")
    THEN parse_st(content)
    ELSE IF starts_with(content, "00") /\ Len(content) > EmvMinLen
    THEN parse_emv(content)
    ELSE NoneVal

-----------------------------------------------------------------------------
(* Bounds of the model *)

\* image sides are drawn from DownscaleLimit .. DownscaleLimit + MaxOver
MaxOver == 1

\* at most this many candidate regions come out of the finder-pattern search
MaxRegions == 2

\* ideal finder markers are drawn with modules of 1 .. MaxModule pixels
MaxModule == 2

\* single-row images have 1 .. MaxRowLen pixels
MaxRowLen == 6

\* at most this many single characters are appended to an EMV payload body
MaxAppend == 1

\* the CRC loop consumes at most this many bytes
MaxCrcLen == 3

\* an EMV payload handed to EmvData::parse is made of at most this many
\* pieces before its checksum record
MaxPieces == 3

\* an amount text has at most this many digits
MaxDigits == 3

\* pixels of an image that is binarized
MaxPixels == 3

\* boxes handed to nms
MaxBoxes == 3

\* finder patterns handed to merge_patterns
MaxPatterns == 3

\* pixels in an outer run handed to check_ratio
MaxRun == 3

-----------------------------------------------------------------------------
(* QRDecoder::decode (decoding.rs) *)

\* decoding.rs:208  img.width() > 400 || img.height() > 400
DownscaleLimit == 400

\* decoding.rs:131  add_white_padding(img, 20)
PaddingPx == 20

\* decoding.rs:210  downscale_image(img, 2)
DownscaleFactor == 2

\* QRDecoder::new: try_inverted is always true
try_inverted == TRUE

\* decoding.rs:171
angles == <<30, 45, 60>>

\* decoding.rs:193, after the Otsu threshold
fixed_thresholds == <<64, 96, 128, 160, 192>>

\* The texts a provider may read out of an image.
Payloads == {"Hello", "my bank", "https://qr.nspk.ru/A", "ST.1|Sum=5"}

\* An EMV payload (56 characters) whose tag 63 does not hold its CRC
EmvBadCrc == "00020101021252044111530364354031505802RU5904Acme63040000"

ScanPayloads == Payloads \cup {EmvBadCrc, "https://a.io/pay"}

\* A transformed image is the list of transforms applied to the input image,
\* first applied first; <<>> is the input image itself.
T(op, arg) == [op |-> op, arg |-> arg]

invert_image(img) == Append(img, T("invert", 0))
preprocess_image(img) == img \o <<T("contrast_stretch", 0), T("sharpen", 0)>>
add_white_padding(img, padding) == Append(img, T("pad", padding))
rotate_image(img, angle) == Append(img, T("rotate", angle))
apply_threshold(img, threshold) == Append(img, T("threshold", threshold))
downscale_image(img, factor) == Append(img, T("downscale", factor))

\* calculate_otsu_threshold is a function of the pixels; the image record
\* carries its value.
calculate_otsu_threshold(image) == image.otsu

Call(img, provider) == [image |-> img, provider |-> provider]

\* One `if let Ok(..) = decode_with_rqrr(x) {return} if let Ok(..) =
\* decode_with_rxing(x, true) {return}` pair of the ladder.
TryBoth(img) == <<Call(img, "rqrr"), Call(img, "rxing")>>

\* RotationCalls with each angle tried in both directions.
RECURSIVE RotationCallsBothSigns(_)
RotationCallsBothSigns(as) ==
    IF as = <<>> THEN <<>>
    ELSE TryBoth(rotate_image(<<>>, Head(as)))
         \o TryBoth(rotate_image(<<>>, 0 - Head(as)))
         \o RotationCallsBothSigns(Tail(as))

RECURSIVE RotationCalls(_)
RotationCalls(as) ==
    IF as = <<>> THEN <<>>
    ELSE TryBoth(rotate_image(<<>>, Head(as))) \o RotationCalls(Tail(as))

\* ThresholdCalls binarizing the contrast-enhanced image of the third rung
\* instead of the input.
RECURSIVE ThresholdCallsOnPreprocessed(_)
ThresholdCallsOnPreprocessed(ts) ==
    IF ts = <<>> THEN <<>>
    ELSE TryBoth(apply_threshold(preprocess_image(<<>>), Head(ts)))
         \o ThresholdCallsOnPreprocessed(Tail(ts))

RECURSIVE ThresholdCalls(_)
ThresholdCalls(ts) ==
    IF ts = <<>> THEN <<>>
    ELSE TryBoth(apply_threshold(<<>>, Head(ts))) \o ThresholdCalls(Tail(ts))

\* Ladder with the rotation rung moved in front of the padding rung.
LadderRotationFirst(image) ==
    LET img == <<>>
        preprocessed == preprocess_image(img)
    IN  TryBoth(img)
        \o TryBoth(invert_image(img))
        \o TryBoth(preprocessed)
        \o TryBoth(invert_image(preprocessed))
        \o RotationCalls(angles)
        \o TryBoth(add_white_padding(img, PaddingPx))
        \o TryBoth(add_white_padding(invert_image(img), PaddingPx))
        \o ThresholdCalls(<<calculate_otsu_threshold(image)>> \o fixed_thresholds)
        \o (IF image.w > DownscaleLimit \/ image.h > DownscaleLimit
            THEN TryBoth(downscale_image(img, DownscaleFactor))
            ELSE <<>>)

\* The provider calls decode makes on `image` when every one of them fails,
\* in program order.
Ladder(image) ==
    LET img == <<>>
        preprocessed == preprocess_image(img)
    IN  TryBoth(img)
        \o (IF try_inverted THEN TryBoth(invert_image(img)) ELSE <<>>)
        \o TryBoth(preprocessed)
        \o (IF try_inverted THEN TryBoth(invert_image(preprocessed)) ELSE <<>>)
        \o TryBoth(add_white_padding(img, PaddingPx))
        \o (IF try_inverted
            THEN TryBoth(add_white_padding(invert_image(img), PaddingPx))
            ELSE <<>>)
        \o RotationCalls(angles)
        \o ThresholdCalls(<<calculate_otsu_threshold(image)>> \o fixed_thresholds)
        \o (IF image.w > DownscaleLimit \/ image.h > DownscaleLimit
            THEN TryBoth(downscale_image(img, DownscaleFactor))
            ELSE <<>>)

\* decode_with_rqrr: Ok, NotFound (no grid) or DecodeFailed (grid.decode failed)
RqrrOutcomes ==
    {Ok(t) : t \in Payloads} \cup {Err("NotFound"), Err("DecodeFailed")}

\* decode_with_rxing: Ok or NotFound
RxingOutcomes == {Ok(t) : t \in Payloads} \cup {Err("NotFound")}

Sides == DownscaleLimit .. (DownscaleLimit + MaxOver)
OtsuLevels == {64, 100}
Images == [w : Sides, h : Sides, otsu : OtsuLevels]

\* AfterCall propagating a DecodeFailed of the provider (as `?` would).
AfterCallPropagate(outcome) ==
    IF outcome.tag = "Ok" \/ outcome = Err("DecodeFailed")
    THEN /\ d_ret' = outcome
         /\ d_pc' = d_pc
    ELSE /\ d_ret' = NoneVal
         /\ d_pc' = d_pc + 1

\* What decode does with the result of one provider call: `if let Ok(result)
\* = ... { return Ok(result); }`, otherwise fall through to the next call.
AfterCall(outcome) ==
    IF outcome.tag = "Ok"
    THEN /\ d_ret' = outcome
         /\ d_pc' = d_pc
    ELSE /\ d_ret' = NoneVal
         /\ d_pc' = d_pc + 1

DecodeRunning == d_ret = NoneVal /\ d_img # NoneVal

CallRqrr ==
    /\ DecodeRunning
    /\ d_pc <= Len(Ladder(d_img))
    /\ Ladder(d_img)[d_pc].provider = "rqrr"
    /\ \E outcome \in RqrrOutcomes :
          /\ d_last' = outcome
          /\ AfterCall(outcome)
    /\ d_log' = Append(d_log, Ladder(d_img)[d_pc])
    /\ UNCHANGED <<d_img, notDecode>>

CallRxing ==
    /\ DecodeRunning
    /\ d_pc <= Len(Ladder(d_img))
    /\ Ladder(d_img)[d_pc].provider = "rxing"
    /\ \E outcome \in RxingOutcomes :
          /\ d_last' = outcome
          /\ AfterCall(outcome)
    /\ d_log' = Append(d_log, Ladder(d_img)[d_pc])
    /\ UNCHANGED <<d_img, notDecode>>

\* decoding.rs:221  Err(DecodeError::NotFound)
ExhaustedError == "NotFound"

ReturnNotFound ==
    /\ DecodeRunning
    /\ d_pc > Len(Ladder(d_img))
    /\ d_ret' = Err(ExhaustedError)
    /\ UNCHANGED <<d_img, d_pc, d_log, d_last, notDecode>>

DecodeIdle ==
    /\ d_img = NoneVal
    /\ d_pc = 1
    /\ d_log = <<>>
    /\ d_last = NoneVal
    /\ d_ret = NoneVal

DecodeInit ==
    /\ d_img \in Images
    /\ d_pc = 1
    /\ d_log = <<>>
    /\ d_last = NoneVal
    /\ d_ret = NoneVal


-----------------------------------------------------------------------------
(* QRDecoder::decode on an image and on its inverse, the providers being
   functions of the image they are given *)

\* invert_image putting white where the pixel is dark and black elsewhere
invert_pixels_binarised(px) == [i \in DOMAIN px |-> IF px[i] < 128 THEN 255 ELSE 0]

\* invert_image on the pixels: result.put_pixel(x, y, Luma([255 - pixel]))
invert_pixels(px) == [i \in DOMAIN px |-> 255 - px[i]]

\* The image a call of the ladder is made on: the pixels of the input, and
\* the transforms applied to them. An inversion applied first is carried out
\* on the pixels.
CallImage(px, ops) ==
    IF ops # <<>> /\ Head(ops) = T("invert", 0)
    THEN [px |-> invert_pixels(px), ops |-> Tail(ops)]
    ELSE [px |-> px, ops |-> ops]

\* the image the running decode was called on
InvInput == IF i_run = 1 THEN i_px ELSE invert_pixels(i_px)

InvLadder ==
    Ladder([w |-> i_meta.w, h |-> i_meta.h,
            otsu |-> IF i_run = 1 THEN i_meta.otsu ELSE i_meta.otsu_inverted])

\* a provider either reads a text or fails; it answers the same image the
\* same way every time
InvOutcomes == {Ok("Hello"), Err("NotFound")}

Answers(provider, image) ==
    IF \E a \in i_memo : a.provider = provider /\ a.image = image
    THEN {a.outcome : a \in {b \in i_memo : b.provider = provider /\ b.image = image}}
    ELSE InvOutcomes

\* `if let Ok(result) = ... { return Ok(result); }` of the running decode
InvAfterCall(outcome) ==
    IF outcome.tag = "Ok"
    THEN /\ i_ret' = [i_ret EXCEPT ![i_run] = outcome]
         /\ i_run' = i_run + 1
         /\ i_pc' = 1
    ELSE /\ i_pc' = i_pc + 1
         /\ UNCHANGED <<i_ret, i_run>>

InvCall(provider) ==
    /\ i_run \in {1, 2}
    /\ i_pc <= Len(InvLadder)
    /\ InvLadder[i_pc].provider = provider
    /\ LET image == CallImage(InvInput, InvLadder[i_pc].image)
       IN  \E outcome \in Answers(provider, image) :
             /\ i_memo' = i_memo \cup {[provider |-> provider, image |-> image,
                                        outcome |-> outcome]}
             /\ InvAfterCall(outcome)
    /\ UNCHANGED <<i_px, i_meta, notInv>>

InvCallRqrr == InvCall("rqrr")

InvCallRxing == InvCall("rxing")

InvReturnNotFound ==
    /\ i_run \in {1, 2}
    /\ i_pc > Len(InvLadder)
    /\ i_ret' = [i_ret EXCEPT ![i_run] = Err(ExhaustedError)]
    /\ i_run' = i_run + 1
    /\ i_pc' = 1
    /\ UNCHANGED <<i_px, i_meta, i_memo, notInv>>

InvPixels == {0, 100}
InvImages == [1..2 -> InvPixels]
InvSides == {DownscaleLimit, DownscaleLimit + 1}

InvIdle ==
    /\ i_px = <<>>
    /\ i_meta = NoneVal
    /\ i_run = 0
    /\ i_pc = 1
    /\ i_memo = {}
    /\ i_ret = <<NoneVal, NoneVal>>

InvInit ==
    /\ i_px \in InvImages
    /\ i_meta \in [w : InvSides, h : {DownscaleLimit}, otsu : {100}, otsu_inverted : {155}]
    /\ i_run = 1
    /\ i_pc = 1
    /\ i_memo = {}
    /\ i_ret = <<NoneVal, NoneVal>>

-----------------------------------------------------------------------------
(* ImageProcessor::process (preprocessing.rs): only the size matters here *)

\* preprocessing.rs:55  self.resize(img, 1000)
MaxDimension == 1000

\* the smallest j with num * 2^j >= den
ShiftFor(num, den) ==
    CHOOSE j \in 0..20 :
        num * Pow2(j) >= den /\ (j = 0 \/ num * Pow2(j - 1) < den)

\* n more bits of the binary quotient r / den behind m: <<bits, remainder>>
RECURSIVE DivBits(_, _, _, _)
DivBits(m, r, den, n) ==
    IF n = 0 THEN <<m, r>>
    ELSE IF 2 * r >= den THEN DivBits(2 * m + 1, 2 * r - den, den, n - 1)
    ELSE DivBits(2 * m, 2 * r, den, n - 1)

\* `num as f32 / den as f32` for 0 < num <= den: the quotient rounded to a
\* 24-bit mantissa, ties to even, as m / 2^k
f32_div(num, den) ==
    LET j == ShiftFor(num, den)
        d == DivBits(1, num * Pow2(j) - den, den, 23)
        up == 2 * d[2] > den \/ (2 * d[2] = den /\ d[1] % 2 = 1)
    IN  [m |-> IF up THEN d[1] + 1 ELSE d[1], k |-> 23 + j]

FloorLog2(n) == CHOOSE b \in 0..30 : Pow2(b) <= n /\ n < Pow2(b + 1)

\* `(side as f32 * scale) as u32` for side < 4096 and scale <= 1: the exact
\* product side * m / 2^k, rounded to a 24-bit mantissa, then truncated.
\* The product is kept in two parts so that no part passes 2^31.
f32_mul_as_u32(side, scale) ==
    LET mh == scale.m \div 4096
        ml == scale.m % 4096
        high == side * mh + (side * ml) \div 4096
        low == (side * ml) % 4096
        sh == Pow2(scale.k - 12)
        n == high \div sh
        gap == Pow2(scale.k) - ((high % sh) * 4096 + low)
        half_ulp == IF n = 0
                    THEN IF scale.k >= 25 THEN Pow2(scale.k - 25) ELSE 0
                    ELSE Pow2(scale.k + FloorLog2(n) - 24)
    IN  IF gap <= half_ulp THEN n + 1 ELSE n

\* resize: unchanged when both sides fit, else both sides times
\* max_dimension / longer side in f32, cast to u32
resize(img, max_dimension) ==
    IF img.w <= max_dimension /\ img.h <= max_dimension THEN img
    ELSE LET longer == IF img.w > img.h THEN img.w ELSE img.h
             scale == f32_div(max_dimension, longer)
         IN  [w |-> f32_mul_as_u32(img.w, scale),
              h |-> f32_mul_as_u32(img.h, scale)]

\* process: resize, then denoise / contrast / threshold, which keep the size
process(img) == resize(img, MaxDimension)

-----------------------------------------------------------------------------
(* QRDetector::detect (detection.rs) *)

\* confidences in hundredths
ConfWholeImage == 50
ConfExtracted == 80
ConfFullDecode == 100

Region(x, y, w, h, confidence) ==
    [bbox |-> <<x, y, w, h>>,
     corners |-> << <<x, y>>, <<x + w, y>>, <<x + w, y + h>>, <<x, y + h>> >>,
     image |-> <<x, y, w, h>>,      \* the crop of the processed image
     confidence |-> confidence]

\* detect with the empty-result case dropped
detect_no_fallback(results, img) == results

\* detect, given the regions extract_qr produced for the pattern groups
detect(results, img) ==
    IF results = <<>>
    THEN <<Region(0, 0, img.w, img.h, ConfWholeImage)>>
    ELSE results

-----------------------------------------------------------------------------
(* QRScanner::scan_image (lib.rs) *)

ScanImages == {[w |-> 100, h |-> 100], [w |-> 2000, h |-> 100]}

\* Regions extract_qr can produce inside img (both sides at least min_size)
CandidateRegions(img) ==
    {Region(0, 0, 40, 40, ConfExtracted),
     Region(20, 10, img.w - 20, img.h - 10, ConfExtracted)}

SeqsUpTo(S, n) == UNION {[1..k -> S] : k \in 0..n}

\* What QRDecoder::decode can return (see SpecDecode)
DecodeReturns == {Ok(t) : t \in ScanPayloads} \cup {Err("NotFound")}

QRResult(content, bbox, confidence) ==
    LET content_type == detect_content_type(content)
    IN  [content |-> content,
         bbox |-> bbox,
         content_type |-> content_type,
         payment |-> IF content_type = "Payment" THEN parse(content) ELSE NoneVal,
         confidence |-> confidence]

\* Vec::push skipped for a Payment entry without PaymentInfo
push_parsed_only(v, e) ==
    IF e.content_type = "Payment" /\ e.payment = NoneVal THEN v ELSE Append(v, e)

\* Vec::push at the front instead of the back
push_front(v, e) == <<e>> \o v

\* Vec::push
push(v, e) == Append(v, e)

\* scan_image failing when nothing was decoded
ScanResultOrError(qr_codes, best_payment) ==
    IF qr_codes = <<>> THEN Err("Decode(NotFound)")
    ELSE Ok([qr_codes |-> qr_codes, best_payment |-> best_payment,
             processing_time_ms |-> 0])

\* lib.rs:258  Ok(ScanResult {..})
ScanResult(qr_codes, best_payment) ==
    Ok([qr_codes |-> qr_codes, best_payment |-> best_payment,
        processing_time_ms |-> 0])

ScanPreprocess ==
    /\ s_phase = "start"
    /\ s_processed' = process(s_gray)
    /\ s_phase' = "preprocessed"
    /\ UNCHANGED <<s_gray, s_cands, s_detected, s_idx, s_qr_codes,
                   s_best_payment_score, s_best_payment_idx, s_decoded, s_result,
                   notScan>>

ScanDetect ==
    /\ s_phase = "preprocessed"
    /\ \E results \in SeqsUpTo(CandidateRegions(s_processed), MaxRegions) :
          /\ s_cands' = results
          /\ s_detected' = detect(results, s_processed)
    /\ s_phase' = "loop"
    /\ UNCHANGED <<s_gray, s_processed, s_idx, s_qr_codes,
                   s_best_payment_score, s_best_payment_idx, s_decoded, s_result,
                   notScan>>

\* One iteration of `for (idx, detection) in detected.iter().enumerate()`
DecodeRegion ==
    /\ s_phase = "loop"
    /\ s_idx < Len(s_detected)
    /\ LET detection == s_detected[s_idx + 1]
       IN  \E r \in DecodeReturns :
             /\ s_decoded' = Append(s_decoded, [image |-> detection.image, result |-> r])
             /\ IF r.tag = "Ok"
                THEN LET payment_score == relevance_score(r.val)
                     IN  /\ IF payment_score > s_best_payment_score
                            THEN /\ s_best_payment_score' = payment_score
                                 /\ s_best_payment_idx' = Some(s_idx)
                            ELSE UNCHANGED <<s_best_payment_score, s_best_payment_idx>>
                         /\ s_qr_codes' = push(s_qr_codes,
                               QRResult(r.val, detection.bbox, detection.confidence))
                ELSE UNCHANGED <<s_qr_codes, s_best_payment_score, s_best_payment_idx>>
    /\ s_idx' = s_idx + 1
    /\ UNCHANGED <<s_phase, s_gray, s_processed, s_cands, s_detected, s_result,
                   notScan>>

\* `if qr_codes.is_empty() { if let Ok(decoded) = decoder.decode(&processed) ..`
FullImageDecode ==
    /\ s_phase = "loop"
    /\ s_idx = Len(s_detected)
    /\ s_qr_codes = <<>>
    /\ \E r \in DecodeReturns :
          /\ s_decoded' = Append(s_decoded,
                [image |-> <<0, 0, s_processed.w, s_processed.h>>, result |-> r])
          /\ IF r.tag = "Ok"
             THEN LET e == QRResult(r.val, <<0, 0, s_processed.w, s_processed.h>>,
                                    ConfFullDecode)
                  IN  /\ s_qr_codes' = push(s_qr_codes, e)
                      /\ s_best_payment_idx' =
                            IF s_best_payment_idx = NoneVal /\ e.content_type = "Payment"
                            THEN Some(0)
                            ELSE s_best_payment_idx
             ELSE UNCHANGED <<s_qr_codes, s_best_payment_idx>>
    /\ s_phase' = "finish"
    /\ UNCHANGED <<s_gray, s_processed, s_cands, s_detected, s_idx,
                   s_best_payment_score, s_result, notScan>>

ScanReturn ==
    /\ \/ s_phase = "finish"
       \/ s_phase = "loop" /\ s_idx = Len(s_detected) /\ s_qr_codes # <<>>
    /\ s_result' = ScanResult(s_qr_codes, s_best_payment_idx)
    /\ s_phase' = "done"
    /\ UNCHANGED <<s_gray, s_processed, s_cands, s_detected, s_idx, s_qr_codes,
                   s_best_payment_score, s_best_payment_idx, s_decoded, notScan>>

ScanIdle ==
    /\ s_phase = "idle"
    /\ s_gray = NoneVal
    /\ s_processed = NoneVal
    /\ s_cands = <<>>
    /\ s_detected = <<>>
    /\ s_idx = 0
    /\ s_qr_codes = <<>>
    /\ s_best_payment_score = 0
    /\ s_best_payment_idx = NoneVal
    /\ s_decoded = <<>>
    /\ s_result = NoneVal

ScanInit ==
    /\ s_phase = "start"
    /\ s_gray \in ScanImages
    /\ s_processed = NoneVal
    /\ s_cands = <<>>
    /\ s_detected = <<>>
    /\ s_idx = 0
    /\ s_qr_codes = <<>>
    /\ s_best_payment_score = 0
    /\ s_best_payment_idx = NoneVal
    /\ s_decoded = <<>>
    /\ s_result = NoneVal


-----------------------------------------------------------------------------
(* QRDetector::find_finder_patterns (detection.rs) *)

\* DetectorConfig::default
threshold == 128
min_size == 20
max_size == 2000
\* ratio_tolerance 0.5, as a fraction
ratio_tolerance == [num |-> 1, den |-> 2]

Width(img) == Len(img[1])
Height(img) == Len(img)

\* img.get_pixel(x, y), coordinates from 0
get_pixel(img, x, y) == img[y + 1][x + 1]

Sum5(c) == c[1] + c[2] + c[3] + c[4] + c[5]

Abs(n) == IF n < 0 THEN -n ELSE n

\* 1 : 1 : 3 : 1 : 1
expected == <<1, 1, 3, 1, 1>>

\* n / d rounded to a whole number, ties to even
RoundEven(n, d) ==
    LET q == n \div d
        r == n % d
    IN  IF 2 * r > d \/ (2 * r = d /\ q % 2 = 1) THEN q + 1 ELSE q

\* a whole number below 2^26 rounded to a 24-bit mantissa
Round24(n) ==
    IF n < Pow2(24) THEN n
    ELSE IF n < Pow2(25) THEN 2 * RoundEven(n, 2)
    ELSE 4 * RoundEven(n, 4)

\* check_ratio in f32, for totals below 2^24.  Everything is counted in units
\* of the last place of module_size = total as f32 / 7.0: the quotient is
\* rounded to 24 bits, expected[i] * module_size is rounded again,
\* count - expected_size is exact where it can matter, and tolerance =
\* module_size * ratio_tolerance is exact for the tolerance 0.5.
check_ratio(counts) ==
    LET total == Sum5(counts)
    IN  IF total < 7 THEN FALSE
        ELSE LET unit == Pow2(23 - FloorLog2(total \div 7))
                 module_size == RoundEven(total * unit, 7)
                 expected_size(i) == Round24(expected[i] * module_size)
             IN  \A i \in 1..5 :
                     Abs(counts[i] * unit - expected_size(i)) * ratio_tolerance.den
                         <= module_size * ratio_tolerance.num

Min(a, b) == IF a < b THEN a ELSE b
Max(a, b) == IF a > b THEN a ELSE b

\* The loop of verify_vertical from row y to end_y, in state `state` (0..4)
RECURSIVE vertical_counts(_, _, _, _, _, _)
vertical_counts(img, center_x, y, end_y, state, v_counts) ==
    IF y > end_y THEN v_counts
    ELSE LET is_black == get_pixel(img, center_x, y) < threshold
             expected_black == state % 2 = 0
         IN  IF is_black = expected_black
             THEN vertical_counts(img, center_x, y + 1, end_y, state,
                                  [v_counts EXCEPT ![state + 1] = @ + 1])
             ELSE IF state + 1 >= 5 THEN v_counts
             ELSE vertical_counts(img, center_x, y + 1, end_y, state + 1,
                                  [v_counts EXCEPT ![state + 2] = 1])

verify_vertical(img, center_x, center_y, h_counts) ==
    LET check_range == Sum5(h_counts) \div 2
        start_y == Max(center_y - check_range, 0)
        end_y == Min(center_y + check_range, Height(img) - 1)
    IN  check_ratio(vertical_counts(img, center_x, start_y, end_y, 0, <<0, 0, 0, 0, 0>>))

\* module sizes are kept as exact fractions
Frac(n, d) == [num |-> n, den |-> d]
FracAdd(a, b) == Frac(a.num * b.den + b.num * a.den, a.den * b.den)

FinderPattern(center_x, center_y, module_size) ==
    [center_x |-> center_x, center_y |-> center_y, module_size |-> module_size]

\* dist(p1, p2) < p1.module_size * 2.0, on squares
CloseTo(p1, p2) ==
    LET dx == p1.center_x - p2.center_x
        dy == p1.center_y - p2.center_y
    IN  (dx * dx + dy * dy) * p1.module_size.den * p1.module_size.den
            < 4 * p1.module_size.num * p1.module_size.num

RECURSIVE SumOver(_, _, _)
SumOver(patterns, members, field) ==
    IF members = {} THEN 0
    ELSE LET j == CHOOSE j \in members : TRUE
         IN  patterns[j][field] + SumOver(patterns, members \ {j}, field)

RECURSIVE SizeSum(_, _)
SizeSum(patterns, members) ==
    IF members = {} THEN Frac(0, 1)
    ELSE LET j == CHOOSE j \in members : TRUE
         IN  FracAdd(patterns[j].module_size, SizeSum(patterns, members \ {j}))

\* the loop without the `if used[j] { continue; }` of the inner loop
RECURSIVE merge_from_reusing(_, _, _, _)
merge_from_reusing(patterns, i, used, merged) ==
    IF i > Len(patterns) THEN merged
    ELSE IF i \in used THEN merge_from_reusing(patterns, i + 1, used, merged)
    ELSE LET members == {i} \cup {j \in (i + 1)..Len(patterns) :
                                     CloseTo(patterns[i], patterns[j])}
             count == Cardinality(members)
             size == SizeSum(patterns, members)
         IN  merge_from_reusing(patterns, i + 1, used \cup members,
                 Append(merged,
                     FinderPattern(SumOver(patterns, members, "center_x") \div count,
                                   SumOver(patterns, members, "center_y") \div count,
                                   Frac(size.num, size.den * count))))

\* The outer loop of merge_patterns from index i (from 1), used: the merged ones
RECURSIVE merge_from(_, _, _, _)
merge_from(patterns, i, used, merged) ==
    IF i > Len(patterns) THEN merged
    ELSE IF i \in used THEN merge_from(patterns, i + 1, used, merged)
    ELSE LET members == {i} \cup {j \in (i + 1)..Len(patterns) :
                                     j \notin used /\ CloseTo(patterns[i], patterns[j])}
             count == Cardinality(members)
             size == SizeSum(patterns, members)
         IN  merge_from(patterns, i + 1, used \cup members,
                 Append(merged,
                     FinderPattern(SumOver(patterns, members, "center_x") \div count,
                                   SumOver(patterns, members, "center_y") \div count,
                                   Frac(size.num, size.den * count))))

merge_patterns(patterns) ==
    IF patterns = <<>> THEN patterns ELSE merge_from(patterns, 1, {}, <<>>)

\* The body of `for x in 0..width` for the pixel at (x, y): the new
\* state_count, current_state, patterns, and the arrays check_ratio saw.
ScanPixel(img, x, y, state_count, current_state, patterns, checked) ==
    LET is_black == get_pixel(img, x, y) < threshold
        St(sc, cs, ps, ch) ==
            [state_count |-> sc, current_state |-> cs, patterns |-> ps, checked |-> ch]
    IN  IF is_black
        THEN IF current_state % 2 = 1
             THEN IF current_state + 1 >= 5
                  THEN LET total_width == Sum5(state_count)
                           center_x == x - total_width \div 2
                           hit == /\ check_ratio(state_count)
                                  /\ verify_vertical(img, center_x, y, state_count)
                           shifted == <<state_count[3], state_count[4], state_count[5], 1, 0>>
                       IN  St([shifted EXCEPT ![4] = @ + 1], 3,
                              IF hit
                              THEN Append(patterns,
                                          FinderPattern(center_x, y, Frac(total_width, 7)))
                              ELSE patterns,
                              Append(checked, state_count))
                  ELSE St([state_count EXCEPT ![current_state + 2] = @ + 1],
                          current_state + 1, patterns, checked)
             ELSE St([state_count EXCEPT ![current_state + 1] = @ + 1],
                     current_state, patterns, checked)
        ELSE LET cs == IF current_state % 2 = 0
                       THEN (IF current_state + 1 >= 5 THEN 4 ELSE current_state + 1)
                       ELSE current_state
             IN  St(IF cs < 5 THEN [state_count EXCEPT ![cs + 1] = @ + 1] ELSE state_count,
                    cs, patterns, checked)

\* An ideal finder marker with modules of k pixels inside a white quiet zone
\* of q pixels: rings of Chebyshev radius 3 (black), 2 (white), 0..1 (black).
MarkerImage(k, q) ==
    LET n == 7 * k + 2 * q
        Ring(x, y) == Max(Abs((x - q) \div k - 3), Abs((y - q) \div k - 3))
        Inside(x, y) == x >= q /\ x < q + 7 * k /\ y >= q /\ y < q + 7 * k
    IN  [y1 \in 1..n |->
            [x1 \in 1..n |->
                IF Inside(x1 - 1, y1 - 1) /\ Ring(x1 - 1, y1 - 1) # 2 THEN 0 ELSE 255]]

IdealMarkers == {MarkerImage(k, 1) : k \in 1..MaxModule}

\* single-row images around the binarization threshold
RowImages == {<<row>> : row \in UNION {[1..n -> {threshold - 1, threshold}] : n \in 1..MaxRowLen}}

FinderImages == IdealMarkers \cup RowImages

\* One pixel of the scan; the per-row state is reset when a row ends.
FinderPixel ==
    /\ f_phase = "scan"
    /\ f_y < Height(f_img)
    /\ LET st == ScanPixel(f_img, f_x, f_y, f_state_count, f_current_state,
                           f_patterns, f_checked)
           row_ends == f_x + 1 = Width(f_img)
       IN  /\ f_patterns' = st.patterns
           /\ f_checked' = st.checked
           /\ f_state_count' = IF row_ends THEN <<0, 0, 0, 0, 0>> ELSE st.state_count
           /\ f_current_state' = IF row_ends THEN 0 ELSE st.current_state
           /\ f_x' = IF row_ends THEN 0 ELSE f_x + 1
           /\ f_y' = IF row_ends THEN f_y + 1 ELSE f_y
    /\ UNCHANGED <<f_phase, f_img, f_result, notFinder>>

\* After the last row: self.merge_patterns(patterns)
FinderReturn ==
    /\ f_phase = "scan"
    /\ f_y = Height(f_img)
    /\ f_result' = merge_patterns(f_patterns)
    /\ f_phase' = "done"
    /\ UNCHANGED <<f_img, f_x, f_y, f_state_count, f_current_state, f_patterns,
                   f_checked, notFinder>>

FinderIdle ==
    /\ f_phase = "idle"
    /\ f_img = <<>>
    /\ f_x = 0
    /\ f_y = 0
    /\ f_state_count = <<0, 0, 0, 0, 0>>
    /\ f_current_state = 0
    /\ f_patterns = <<>>
    /\ f_checked = <<>>
    /\ f_result = NoneVal

FinderInit ==
    /\ f_phase = "scan"
    /\ f_img \in FinderImages
    /\ f_x = 0
    /\ f_y = 0
    /\ f_state_count = <<0, 0, 0, 0, 0>>
    /\ f_current_state = 0
    /\ f_patterns = <<>>
    /\ f_checked = <<>>
    /\ f_result = NoneVal

-----------------------------------------------------------------------------
(* EmvData::validate_crc and crc16_ccitt_kermit (emv.rs) *)

\* ASCII characters by code: 32..33, 35..91, 93..95, 97..126 (the double
\* quote, the backslash and the backtick are left out)
AsciiRun32 == " !"
AsciiRun35 == "#$%&'()*+,-./0123456789:;<=>?@ABCDEFGHIJKLMNOPQRSTUVWXYZ["
AsciiRun93 == "]^_"
AsciiRun97 == "abcdefghijklmnopqrstuvwxyz{|}~"

RunCodes(run, first) ==
    [c \in {Char(run, i) : i \in 1..Len(run)} |-> first - 1 + IndexOf(c, run)]

\* the byte of a one-character string
AsciiCode ==
    RunCodes(AsciiRun32, 32) @@ RunCodes(AsciiRun35, 35)
        @@ RunCodes(AsciiRun93, 93) @@ RunCodes(AsciiRun97, 97)

RECURSIVE BitXor(_, _)
BitXor(a, b) ==
    IF a = 0 THEN b
    ELSE IF b = 0 THEN a
    ELSE 2 * BitXor(a \div 2, b \div 2) + ((a + b) % 2)

\* u16 shifts
Shl16(a, n) == (a * Pow2(n)) % 65536
Shr16(a, n) == a \div Pow2(n)

\* crc16_step without the fold x ^= x >> 4
crc16_step_no_fold(crc, byte) ==
    LET x == BitXor(Shr16(crc, 8), byte) % 256
    IN  BitXor(BitXor(BitXor(Shl16(crc, 8), Shl16(x, 12)), Shl16(x, 5)), x)

\* One byte of the loop of crc16_ccitt_kermit
crc16_step(crc, byte) ==
    LET x0 == BitXor(Shr16(crc, 8), byte) % 256
        x == BitXor(x0, Shr16(x0, 4))
    IN  BitXor(BitXor(BitXor(Shl16(crc, 8), Shl16(x, 12)), Shl16(x, 5)), x)

U16 == 0..65535

\* for &byte in data, from the i-th byte on; crc is a u16 after every byte
RECURSIVE crc16_from(_, _, _)
crc16_from(crc, data, i) ==
    IF i > Len(data) THEN crc
    ELSE LET next == crc16_step(crc, AsciiCode[Char(data, i)])
         IN  CASE next \in U16 -> crc16_from(next, data, i + 1)

\* emv.rs:153  let mut crc: u16 = 0xFFFF
CrcInit == 65535

crc16_ccitt_kermit(data) == crc16_from(CrcInit, data, 1)

HexUpper == "0123456789ABCDEF"
HexLower == "0123456789abcdef"

HexDigit(n, digits) == Char(digits, n + 1)

\* format!("{:04X}", n) for a u16
Hex4(n) ==
    HexDigit(n \div 4096, HexUpper) \o HexDigit((n \div 256) % 16, HexUpper)
        \o HexDigit((n \div 16) % 16, HexUpper) \o HexDigit(n % 16, HexUpper)

\* format!("{:04x}", n) for a u16
Hex4Lower(n) ==
    HexDigit(n \div 4096, HexLower) \o HexDigit((n \div 256) % 16, HexLower)
        \o HexDigit((n \div 16) % 16, HexLower) \o HexDigit(n % 16, HexLower)

EmvError(kind) == Err([kind |-> kind])

InvalidCrc(expected_crc, actual) ==
    Err([kind |-> "InvalidCrc", expected |-> expected_crc, actual |-> actual])

\* validate_crc formatting the calculated checksum in lower case
validate_crc_lower_hex(raw) ==
    LET len == Len(raw)
        provided_crc == SubSeq(raw, len - 3, len)
        calculated_hex == Hex4Lower(crc16_ccitt_kermit(SubSeq(raw, 1, len - 4)))
    IN  IF len < 8 THEN EmvError("MalformedData")
        ELSE IF SubSeq(raw, len - 7, len - 4) # "6304" THEN EmvError("MissingChecksum")
        ELSE IF to_uppercase(provided_crc) # calculated_hex
             THEN InvalidCrc(calculated_hex, provided_crc)
        ELSE Ok("unit")

\* validate_crc comparing the first three checksum characters only
validate_crc_three_chars(raw) ==
    LET len == Len(raw)
        provided_crc == SubSeq(raw, len - 3, len)
        calculated_hex == Hex4(crc16_ccitt_kermit(SubSeq(raw, 1, len - 4)))
    IN  IF len < 8 THEN EmvError("MalformedData")
        ELSE IF SubSeq(raw, len - 7, len - 4) # "6304" THEN EmvError("MissingChecksum")
        ELSE IF to_uppercase(SubSeq(provided_crc, 1, 3)) # SubSeq(calculated_hex, 1, 3)
             THEN InvalidCrc(calculated_hex, provided_crc)
        ELSE Ok("unit")

\* EmvData::validate_crc
validate_crc(raw) ==
    LET len == Len(raw)
        checksum_tag == SubSeq(raw, len - 7, len - 4)
        provided_crc == SubSeq(raw, len - 3, len)
        data_to_check == SubSeq(raw, 1, len - 4)
        calculated_hex == Hex4(crc16_ccitt_kermit(data_to_check))
    IN  IF len < 4 THEN EmvError("MalformedData")
        ELSE IF len < 8 THEN EmvError("MalformedData")
        ELSE IF checksum_tag # "6304" THEN EmvError("MissingChecksum")
        ELSE IF to_uppercase(provided_crc) # calculated_hex
             THEN InvalidCrc(calculated_hex, provided_crc)
        ELSE Ok("unit")

\* A well-formed EMV body without its checksum record (48 characters)
EmvLongBody == "00020101021252044111530364354031505802RU5904Acme"

EmvBodies == {"", "0002", EmvLongBody}
BodyAlphabet == {"0", "A"}
TamperAlphabet == {"0", "A", "G", "a", "b", "c", "d", "e", "f"}

\* The payload grows by one character
EmvAppend ==
    /\ e_phase = "body"
    /\ e_appended < MaxAppend
    /\ \E c \in BodyAlphabet : e_raw' = e_raw \o c
    /\ e_appended' = e_appended + 1
    /\ UNCHANGED <<e_phase, e_prev, e_check, e_payment, notEmv>>

\* The header "6304" of the checksum record is appended
EmvAppendTag ==
    /\ e_phase = "body"
    /\ ~ (Len(e_raw) >= 4 /\ SubSeq(e_raw, Len(e_raw) - 3, Len(e_raw)) = "6304")
    /\ e_raw' = e_raw \o "6304"
    /\ UNCHANGED <<e_phase, e_appended, e_prev, e_check, e_payment, notEmv>>

\* format!("{}{:04X}", body, crc16_ccitt_kermit(body)), then the payload is
\* validated and parsed
EmvSeal ==
    /\ e_phase = "body"
    /\ e_raw' = e_raw \o Hex4(crc16_ccitt_kermit(e_raw))
    /\ e_check' = validate_crc(e_raw')
    /\ e_payment' = parse(e_raw')
    /\ e_phase' = "sealed"
    /\ UNCHANGED <<e_appended, e_prev, notEmv>>

ReplaceChar(s, i, c) == SubSeq(s, 1, i - 1) \o c \o SubSeq(s, i + 1, Len(s))

\* One of the last four characters of an accepted payload is replaced by a
\* different character, and the payload is validated and parsed again
EmvTamper ==
    /\ e_phase \in {"sealed", "tampered"}
    /\ e_check.tag = "Ok"
    /\ \E i \in (Len(e_raw) - 3)..Len(e_raw), c \in TamperAlphabet :
          /\ c # Char(e_raw, i)
          /\ e_raw' = ReplaceChar(e_raw, i, c)
    /\ e_prev' = e_raw
    /\ e_check' = validate_crc(e_raw')
    /\ e_payment' = parse(e_raw')
    /\ e_phase' = "tampered"
    /\ UNCHANGED <<e_appended, notEmv>>

EmvIdle ==
    /\ e_phase = "idle"
    /\ e_raw = ""
    /\ e_appended = 0
    /\ e_prev = ""
    /\ e_check = NoneVal
    /\ e_payment = NoneVal

EmvInit ==
    /\ e_phase = "body"
    /\ e_raw \in EmvBodies
    /\ e_appended = 0
    /\ e_prev = ""
    /\ e_check = NoneVal
    /\ e_payment = NoneVal

-----------------------------------------------------------------------------
(* Functions run on their own *)

PureIdle ==
    /\ p_fn = "idle"
    /\ p_in = NoneVal
    /\ p_out = NoneVal

MapGet(m, k) ==
    IF \E e \in m : e.k = k THEN Some((CHOOSE e \in m : e.k = k).v) ELSE NoneVal

MapRemove(m, k) == {e \in m : e.k # k}

\* The TLV loop of EmvData::parse from 0-based offset idx: the tags map, or
\* MalformedData when a length does not parse or a value overruns the text
RECURSIVE emv_tags(_, _, _)
emv_tags(raw, idx, tags) ==
    IF idx >= Len(raw) \/ idx + 4 > Len(raw) THEN Ok(tags)
    ELSE LET tag == SubSeq(raw, idx + 1, idx + 2)
             value_len == ParseUsize(SubSeq(raw, idx + 3, idx + 4))
         IN  IF value_len = NoneVal THEN EmvError("MalformedData")
             ELSE IF idx + 4 + value_len.val > Len(raw) THEN EmvError("MalformedData")
             ELSE emv_tags(raw, idx + 4 + value_len.val,
                           MapInsert(tags, tag, SubSeq(raw, idx + 5, idx + 4 + value_len.val)))

\* k.parse::<u32>() of a key is Ok(id) with lo <= id <= hi
KeyIn(k, lo, hi) ==
    LET id == ParseUsize(k) IN id # NoneVal /\ id.val >= lo /\ id.val <= hi

EmvFixedTags == {"01", "52", "53", "54", "58", "59", "60", "61"}

\* EmvData::parse
EmvData_parse(raw) ==
    LET crc_ok == validate_crc(raw)
        walked == emv_tags(raw, 0, {})
    IN  IF crc_ok.tag = "Err" THEN crc_ok
        ELSE IF walked.tag = "Err" THEN walked
        ELSE IF MapGet(walked.val, "00") = NoneVal THEN EmvError("MalformedData")
        ELSE IF MapGet(walked.val, "63") = NoneVal THEN EmvError("MissingChecksum")
        ELSE LET tags == MapRemove(MapRemove(walked.val, "00"), "63")
                 merchant == {e \in tags : KeyIn(e.k, 2, 51)}
                 additional == {e \in tags : KeyIn(e.k, 62, 62)}
                 rest == (tags \ merchant) \ additional
             IN  Ok([raw_data |-> raw,
                     pfi |-> MapGet(walked.val, "00").val,
                     point_of_initiation |-> MapGet(rest, "01"),
                     merchant_account_information |-> merchant,
                     merchant_category_code |-> MapGet(rest, "52"),
                     transaction_currency |-> MapGet(rest, "53"),
                     transaction_amount |-> MapGet(rest, "54"),
                     country_code |-> MapGet(rest, "58"),
                     merchant_name |-> MapGet(rest, "59"),
                     merchant_city |-> MapGet(rest, "60"),
                     postal_code |-> MapGet(rest, "61"),
                     additional_data |-> additional,
                     crc |-> MapGet(walked.val, "63").val,
                     unparsed_tags |-> {e \in rest : e.k \notin EmvFixedTags}])

\* pieces of payload text: whole records, and the header of a record whose
\* eight-character value takes in what follows
EmvPieces == {"000201", "5904Acme", "6304ABCD", "5908", "0102"}

RECURSIVE PieceTexts(_)
PieceTexts(n) ==
    IF n = 0 THEN {""}
    ELSE PieceTexts(n - 1) \cup {t \o piece : t \in PieceTexts(n - 1), piece \in EmvPieces}

\* format!("{}{:04X}", payload_body, crc) of test_valid_emv
Sealed(payload_body) == payload_body \o Hex4(crc16_ccitt_kermit(payload_body))

EmvParseInputs == {Sealed(t \o "6304") : t \in PieceTexts(MaxPieces)}

EmvDataParse ==
    /\ p_fn = "EmvData::parse"
    /\ p_out = NoneVal
    /\ p_out' = EmvData_parse(p_in)
    /\ UNCHANGED <<p_fn, p_in, notPure>>

EmvDataParseInit ==
    /\ p_fn = "EmvData::parse"
    /\ p_in \in EmvParseInputs
    /\ p_out = NoneVal

\* the digits amounts are written with
AmountDigits == {"0", "1", "7"}

RECURSIVE DigitTexts(_)
DigitTexts(n) ==
    IF n = 0 THEN {""}
    ELSE DigitTexts(n - 1) \cup {t \o c : t \in DigitTexts(n - 1), c \in AmountDigits}

\* amounts: the non-empty digit strings of up to MaxDigits digits
Amounts == DigitTexts(MaxDigits) \ {""}

\* the two decimal digits of a TLV length
Fmt2(n) == Char(Digits, (n \div 10) + 1) \o Char(Digits, (n % 10) + 1)

\* A payment text with its amount v and, for a URL, its cur parameter
PaymentInput(content, scheme, v, cur) ==
    [content |-> content, scheme |-> scheme, v |-> v, cur |-> cur]

\* EMV payloads with a tag 54 record, sealed with their checksum record
EmvPaymentInputs ==
    {PaymentInput(Sealed("000201010212520441115303643" \o "54" \o Fmt2(Len(v)) \o v
                           \o "5802RU5910Acme Store" \o "6304"),
                  "emv", v, NoneVal) : v \in Amounts}

\* ST.00012 payloads with one Sum segment
StPaymentInputs ==
    {PaymentInput("ST.00012|Name=Acme|Sum=" \o v \o "|BIC=044525225", "st", v, NoneVal)
         : v \in Amounts}
    \cup {PaymentInput("st.00012|Sum=" \o v, "st", v, NoneVal) : v \in Amounts}

\* NSPK URLs with one sum parameter, without and with a cur parameter
SbpPaymentInputs ==
    {PaymentInput("https://qr.nspk.ru/AS1?type=02&sum=" \o v, "sbp", v, NoneVal)
         : v \in Amounts}
    \cup {PaymentInput("https://qr.nspk.ru/AS1?sum=" \o v \o "&cur=USD", "sbp", v, Some("USD"))
              : v \in Amounts}
    \cup {PaymentInput("http://qr.nspk.ru/AS1?cur=EUR&SUM=" \o v, "sbp", v, Some("EUR"))
              : v \in Amounts}

PaymentInputs == EmvPaymentInputs \cup StPaymentInputs \cup SbpPaymentInputs

PaymentParse ==
    /\ p_fn = "PaymentParser::parse"
    /\ p_out = NoneVal
    /\ p_out' = parse(p_in.content)
    /\ UNCHANGED <<p_fn, p_in, notPure>>

PaymentParseInit ==
    /\ p_fn = "PaymentParser::parse"
    /\ p_in \in PaymentInputs
    /\ p_out = NoneVal

\* bytes fed to crc16_ccitt_kermit: the extremes, both sides of 0x7F/0x80,
\* characters of EMV payloads, and mixed bit patterns
ByteSamples == {0, 1, 48, 65, 90, 127, 128, 255}

\* One iteration of `for &byte in data`
CrcByte ==
    /\ p_fn = "crc16_ccitt_kermit"
    /\ Len(p_in) < MaxCrcLen
    /\ \E byte \in ByteSamples :
          /\ p_in' = Append(p_in, byte)
          /\ p_out' = crc16_step(p_out, byte)
    /\ UNCHANGED <<p_fn, notPure>>

CrcInit0 ==
    /\ p_fn = "crc16_ccitt_kermit"
    /\ p_in = <<>>
    /\ p_out = CrcInit

-----------------------------------------------------------------------------
(* QRDetector::extract_qr and QRDetector::detect over pattern groups
   (detection.rs) *)

\* detection.rs:339-342  the margin put around the pattern centres
Margin == 20

MinOf(S) == CHOOSE m \in S : \A s \in S : m <= s
MaxOf(S) == CHOOSE m \in S : \A s \in S : m >= s

\* extract_qr: the padded box of the three centres in i32, its origin clamped
\* at 0 and its extent cut to what is left of the image
extract_qr(img, group) ==
    LET xs == {group[i].center_x : i \in 1..3}
        ys == {group[i].center_y : i \in 1..3}
        min_x == MinOf(xs) - Margin
        max_x == MaxOf(xs) + Margin
        min_y == MinOf(ys) - Margin
        max_y == MaxOf(ys) + Margin
        x == Max(min_x, 0)
        y == Max(min_y, 0)
        w == Min(max_x - min_x, img.w - x)
        h == Min(max_y - min_y, img.h - y)
    IN  IF w < min_size \/ h < min_size \/ w > max_size \/ h > max_size
        THEN NoneVal
        ELSE Some(Region(x, y, w, h, ConfExtracted))

DetectImages == {[w |-> 100, h |-> 100], [w |-> 60, h |-> 45]}

\* distances between the centres of the two arms of a group
GroupSides == {3, 25, 40}

\* where the corner pattern of a group sits: at the origin, inside the
\* margin, clear of it, and so that the far pattern touches the last column
Offsets(extent, s) == {a \in {0, 5, 30, extent - 1 - s} : a >= 0 /\ a + s < extent}

\* groups is_valid_qr_group accepts: equal module sizes, two equal sides at a
\* right angle; centres are pixel positions of the image
PatternGroups(img) ==
    {<<FinderPattern(a, b, Frac(3, 1)),
       FinderPattern(a + s, b, Frac(3, 1)),
       FinderPattern(a, b + s, Frac(3, 1))>> :
        <<a, b, s>> \in {t \in (0..img.w) \X (0..img.h) \X GroupSides :
                            /\ t[1] \in Offsets(img.w, t[3])
                            /\ t[2] \in Offsets(img.h, t[3])}}

\* one iteration of `for group in groups`
QrDetectGroup ==
    /\ p_fn = "QRDetector::detect"
    /\ p_out.status = "running"
    /\ p_in.groups < MaxRegions
    /\ \E group \in PatternGroups(p_in.img) :
          LET detected == extract_qr(p_in.img, group)
          IN  /\ p_in' = [p_in EXCEPT !.groups = @ + 1]
              /\ p_out' = IF detected.tag = "Some"
                          THEN [p_out EXCEPT !.results = Append(@, detected.val)]
                          ELSE p_out
    /\ UNCHANGED <<p_fn, notPure>>

\* the end of detect: the whole image when nothing was extracted
QrDetectReturn ==
    /\ p_fn = "QRDetector::detect"
    /\ p_out.status = "running"
    /\ p_out' = [status |-> "returned", results |-> detect(p_out.results, p_in.img)]
    /\ UNCHANGED <<p_fn, p_in, notPure>>

QrDetectInit ==
    /\ p_fn = "QRDetector::detect"
    /\ p_in \in [img : DetectImages, groups : {0}]
    /\ p_out = [status |-> "running", results |-> <<>>]

-----------------------------------------------------------------------------
(* OnnxDetector::detect, the loop over the boxes kept by nms
   (ml_detection.rs) *)

MODEL_SIZE == 640

\* f32 values: v when e = 0, v * 2^33 when e = 1.  Adding a value of the
\* small kind to one of the large kind rounds back to the large one.
F32(e, v) == [e |-> IF v = 0 THEN 0 ELSE e, v |-> v]
FAdd(a, b) ==
    IF a.e = b.e THEN F32(a.e, a.v + b.v) ELSE IF a.e > b.e THEN a ELSE b
FSub(a, b) == FAdd(a, F32(b.e, 0 - b.v))
\* w / 2.0: the sizes drawn are even and of the small kind
FHalf(a) == F32(a.e, a.v \div 2)
FMul(a, k) == F32(a.e, a.v * k)
FMax(a, b) == IF FSub(a, b).v < 0 THEN b ELSE a

\* u32 values as <<high 16 bits, low 16 bits>>
Limb == Pow2(16)
U32(n) == <<n \div Limb, n % Limb>>
U32Max == <<Limb - 1, Limb - 1>>
U32Gt(a, b) == a[1] > b[1] \/ (a[1] = b[1] /\ a[2] > b[2])
add_overflows(a, b) == a[1] + b[1] + (a[2] + b[2]) \div Limb >= Limb
wrapping_add(a, b) ==
    <<(a[1] + b[1] + (a[2] + b[2]) \div Limb) % Limb, (a[2] + b[2]) % Limb>>

\* `f as u32`: saturating, negative values to 0
as_u32(f) == IF f.v <= 0 THEN U32(0) ELSE IF f.e = 1 THEN U32Max ELSE U32(f.v)

\* overflow of `x + width` panics with overflow checks and wraps without
Builds == {"overflow-checks", "wrapping"}

\* lines 98-109: centre form to corner form
BBox(cx, cy, w, h, score) ==
    [x1 |-> FSub(cx, FHalf(w)), y1 |-> FSub(cy, FHalf(h)),
     x2 |-> FAdd(cx, FHalf(w)), y2 |-> FAdd(cy, FHalf(h)), score |-> score]

\* find_homography, given what the SVD of the 8x9 matrix delivered
find_homography(svd) ==
    IF svd.v_t.tag = "None" THEN NoneVal
    ELSE IF svd.v_t.val.nrows < 9 THEN NoneVal
    ELSE Some([normalized |-> ~svd.v_t.val.h8_near_zero,
               invertible |-> svd.v_t.val.invertible])

\* warp_perspective: the inverse of the matrix, or the identity without one
warp_perspective(img, matrix, out_width, out_height) ==
    [kind |-> "warp", of |-> img,
     inv_matrix |-> IF matrix.invertible THEN "inverse" ELSE "identity",
     normalized |-> matrix.normalized,
     out_width |-> out_width, out_height |-> out_height]

crop_imm(x, y, width, height) ==
    [kind |-> "crop", x |-> x, y |-> y, width |-> width, height |-> height]

\* the body of `for bbox in kept_boxes` (lines 121-188)
onnx_box(img, build, bbox, corners, svd, out) ==
    LET scale_x == img.w \div MODEL_SIZE
        scale_y == img.h \div MODEL_SIZE
        x == as_u32(FMax(FMul(bbox.x1, scale_x), F32(0, 0)))
        y == as_u32(FMax(FMul(bbox.y1, scale_y), F32(0, 0)))
        width == as_u32(FMax(FMul(FSub(bbox.x2, bbox.x1), scale_x), F32(0, 1)))
        height == as_u32(FMax(FMul(FSub(bbox.y2, bbox.y1), scale_y), F32(0, 1)))
        x_out == U32Gt(wrapping_add(x, width), U32(img.w))
        y_out == U32Gt(wrapping_add(y, height), U32(img.h))
        crop == crop_imm(x, y, width, height)
        side_len == IF U32Gt(height, width) THEN height ELSE width
        h == IF corners.tag = "Some" THEN find_homography(svd) ELSE NoneVal
        unrefined == <<<<x, y>>, <<wrapping_add(x, width), y>>,
                       <<wrapping_add(x, width), wrapping_add(y, height)>>,
                       <<x, wrapping_add(y, height)>>>>
    IN  IF build = "overflow-checks"
            /\ (add_overflows(x, width) \/ (~x_out /\ add_overflows(y, height)))
        THEN [out EXCEPT !.status = "panicked"]
        ELSE IF x_out \/ y_out THEN out
        ELSE [out EXCEPT !.results = Append(@,
                [bbox |-> <<x, y, width, height>>,
                 corners |-> IF h.tag = "Some"
                             THEN [offset |-> <<x, y>>, relative |-> corners.val]
                             ELSE [offset |-> <<U32(0), U32(0)>>, relative |-> unrefined],
                 image |-> IF h.tag = "Some"
                           THEN warp_perspective(crop, h.val, side_len, side_len)
                           ELSE crop,
                 confidence |-> bbox.score])]

\* source images: whole multiples of the model's side, so the scale factors
\* are exact
OnnxImages == {[w |-> 1280, h |-> 640]}

Huge == F32(1, 1)

\* boxes in model space: near the left edge, central, across the right edge,
\* and far outside anything a u32 can hold; with and without extent
KeptBoxes ==
    {BBox(cx, cy, s, s, 90) :
        cx \in {F32(0, 10), F32(0, 320), F32(0, 630), Huge},
        cy \in {F32(0, 320), Huge},
        s \in {F32(0, 0), F32(0, 40)}}

\* what find_corners says of a crop
CornerOutcomes == {NoneVal, Some(<<<<1, 1>>, <<9, 1>>, <<9, 9>>, <<1, 9>>>>)}

\* what the SVD delivers: no V^T, too few rows, or nine rows whose last one
\* makes a matrix that is normalizable and invertible or not
SvdOutcomes ==
    {[v_t |-> NoneVal]}
    \cup {[v_t |-> Some([nrows |-> 8, h8_near_zero |-> FALSE, invertible |-> TRUE])]}
    \cup {[v_t |-> Some([nrows |-> 9, h8_near_zero |-> z, invertible |-> i])] :
            z \in BOOLEAN, i \in BOOLEAN}

OnnxBox ==
    /\ p_fn = "OnnxDetector::detect"
    /\ p_out.status = "running"
    /\ p_in.boxes < MaxRegions
    /\ \E bbox \in KeptBoxes, corners \in CornerOutcomes, svd \in SvdOutcomes :
          LET out == onnx_box(p_in.img, p_in.build, bbox, corners, svd, p_out)
          IN  /\ p_in' = [p_in EXCEPT
                            !.boxes = @ + 1,
                            !.last = Some([bbox |-> bbox, corners |-> corners,
                                           h |-> IF corners.tag = "Some"
                                                 THEN find_homography(svd)
                                                 ELSE NoneVal,
                                           pushed |-> Len(out.results) > Len(p_out.results)])]
              /\ p_out' = out
    /\ UNCHANGED <<p_fn, notPure>>

OnnxReturn ==
    /\ p_fn = "OnnxDetector::detect"
    /\ p_out.status = "running"
    /\ p_out' = [p_out EXCEPT !.status = "returned"]
    /\ UNCHANGED <<p_fn, p_in, notPure>>

OnnxInit ==
    /\ p_fn = "OnnxDetector::detect"
    /\ p_in \in [img : OnnxImages, build : Builds, boxes : {0}, last : {NoneVal}]
    /\ p_out = [status |-> "running", results |-> <<>>]

-----------------------------------------------------------------------------
(* ImageProcessor::find_corners and sort_corners (preprocessing.rs) *)

\* (a - o) x (b - o)
Cross(o, a, b) ==
    (a[1] - o[1]) * (b[2] - o[2]) - (a[2] - o[2]) * (b[1] - o[1])

\* p lies on the segment a-b
OnSegment(a, b, p) ==
    /\ Cross(a, b, p) = 0
    /\ Min(a[1], b[1]) <= p[1] /\ p[1] <= Max(a[1], b[1])
    /\ Min(a[2], b[2]) <= p[2] /\ p[2] <= Max(a[2], b[2])

\* the segments a-b and c-d have a point in common
SegmentsMeet(a, b, c, d) ==
    \/ /\ Cross(a, b, c) * Cross(a, b, d) < 0
       /\ Cross(c, d, a) * Cross(c, d, b) < 0
    \/ OnSegment(a, b, c) \/ OnSegment(a, b, d)
    \/ OnSegment(c, d, a) \/ OnSegment(c, d, b)

\* the closed path q[1] q[2] q[3] q[4] has four corners and does not meet
\* itself
IsSimpleQuad(q) ==
    /\ Cardinality({q[i] : i \in 1..4}) = 4
    /\ ~SegmentsMeet(q[1], q[2], q[3], q[4])
    /\ ~SegmentsMeet(q[2], q[3], q[4], q[1])

\* polygon_area, doubled: |sum of x_i * y_j - x_j * y_i|
polygon_area2(points) ==
    LET n == Len(points)
        term(i) == LET j == (i % n) + 1
                   IN  points[i][1] * points[j][2] - points[j][1] * points[i][2]
        sum[i \in 0..n] == IF i = 0 THEN 0 ELSE sum[i - 1] + term(i)
    IN  Abs(sum[n])

\* is_convex: only the number of points is looked at
is_convex(points) == Len(points) = 4

\* slice::sort_by is stable: an element goes behind the equal ones before it
RECURSIVE insert_sorted(_, _, _)
insert_sorted(s, p, k) ==
    IF s = <<>> THEN <<p>>
    ELSE IF p[k] < Head(s)[k] THEN <<p>> \o s
    ELSE <<Head(s)>> \o insert_sorted(Tail(s), p, k)

RECURSIVE sort_by(_, _)
sort_by(s, k) ==
    IF s = <<>> THEN <<>>
    ELSE insert_sorted(sort_by(SubSeq(s, 1, Len(s) - 1), k), s[Len(s)], k)

\* sort_corners: stable sort by y, the upper two and the lower two each by x,
\* returned as [tl, tr, br, bl]
sort_corners(points) ==
    LET sorted == sort_by(points, 2)
        top == sort_by(SubSeq(sorted, 1, 2), 1)
        bottom == sort_by(SubSeq(sorted, 3, 4), 1)
        tl == top[1]
        tr == top[2]
        bl == bottom[1]
        br == bottom[2]
    IN  <<tl, tr, br, bl>>

\* find_corners, given the simplified contours in the order find_contours
\* delivered them: the first with four points and more than a tenth of the
\* area of the image
find_corners(img, simplified) ==
    LET accepted == {i \in DOMAIN simplified :
                        /\ Len(simplified[i]) = 4
                        /\ 5 * polygon_area2(simplified[i]) > img.w * img.h
                        /\ is_convex(simplified[i])}
    IN  IF accepted = {} THEN NoneVal
        ELSE Some(sort_corners(simplified[MinOf(accepted)]))

\* simplify_douglas_peucker keeps points further than 5 pixels from a chord:
\* corners are drawn on a grid of this pitch
GridStep == 10
GridPoints == {<<GridStep * i, GridStep * j>> : i \in 0..3, j \in 0..3}

\* the crop that holds the grid
CornerImage == [w |-> 3 * GridStep + 1, h |-> 3 * GridStep + 1]

\* outlines of four corners as border tracing delivers them: closed paths
\* that do not meet themselves, in either direction, from any corner
Outlines == {q \in [1..4 -> GridPoints] : IsSimpleQuad(q)}

\* an outline that simplified to three corners
Triangle == <<<<0, 0>>, <<3 * GridStep, 0>>, <<0, 3 * GridStep>>>>

FindCorners ==
    /\ p_fn = "find_corners"
    /\ p_out = NoneVal
    /\ p_out' = Ok(find_corners(p_in.img, p_in.simplified))
    /\ UNCHANGED <<p_fn, p_in, notPure>>

FindCornersInit ==
    /\ p_fn = "find_corners"
    /\ \E q \in Outlines :
          p_in \in {[img |-> CornerImage, simplified |-> <<q>>],
                    [img |-> CornerImage, simplified |-> <<Triangle, q>>]}
    /\ p_out = NoneVal

-----------------------------------------------------------------------------
(* ImageProcessor::process run on its own (preprocessing.rs) *)

\* sides below and at the limit, just above it, where the f32 product falls
\* short of the exact quotient, and at two and four times the limit
ResizeSides == {1, 2, 3, 500, 999, 1000, 1001, 1115, 2000, 2001, 4000}

\* process: the filters behind resize are library routines; on an image
\* without pixels they hand back an image of the same size or panic
process_outcomes(img) ==
    LET result == process(img)
    IN  IF result.w = 0 \/ result.h = 0
        THEN {Ok(result), Err("panic")}
        ELSE {Ok(result)}

Process ==
    /\ p_fn = "ImageProcessor::process"
    /\ p_out.tag = "None"
    /\ p_out' \in process_outcomes(p_in)
    /\ UNCHANGED <<p_fn, p_in, notPure>>

ProcessInit ==
    /\ p_fn = "ImageProcessor::process"
    /\ p_in \in [w : ResizeSides, h : ResizeSides]
    /\ p_out = NoneVal

-----------------------------------------------------------------------------
(* calculate_otsu_threshold and apply_threshold on pixels (decoding.rs) *)

\* how many pixels have the value t
histogram(px, t) == Cardinality({i \in DOMAIN px : px[i] = t})

RECURSIVE SumPixels(_)
SumPixels(px) == IF px = <<>> THEN 0 ELSE Head(px) + SumPixels(Tail(px))

\* the state of the loop `for (t, &count) in histogram.iter().enumerate()`
\* before any step; the largest variance so far is kept as num / den
OtsuStart ==
    [sum_b |-> 0, w_b |-> 0, max_num |-> 0, max_den |-> 1,
     threshold |-> 128, done |-> FALSE]

\* one step of that loop at level t: `continue` while w_b is 0, `break` when
\* w_f is 0, else variance = w_b * w_f * (m_b - m_f)^2 with m_b = sum_b / w_b
\* and m_f = (sum - sum_b) / w_f, that is
\* (sum_b * w_f - (sum - sum_b) * w_b)^2 / (w_b * w_f)
otsu_step(st, t, count, total_pixels, sum) ==
    LET w_b == st.w_b + count
        w_f == total_pixels - w_b
        sum_b == st.sum_b + t * count
        diff == sum_b * w_f - (sum - sum_b) * w_b
        num == diff * diff
        den == w_b * w_f
    IN  IF st.done THEN st
        ELSE IF w_b = 0 THEN [st EXCEPT !.w_b = w_b]
        ELSE IF w_f = 0 THEN [st EXCEPT !.w_b = w_b, !.done = TRUE]
        ELSE IF num * st.max_den > st.max_num * den
        THEN [st EXCEPT !.w_b = w_b, !.sum_b = sum_b,
                        !.max_num = num, !.max_den = den, !.threshold = t]
        ELSE [st EXCEPT !.w_b = w_b, !.sum_b = sum_b]

\* the steps of the loop for the levels lo..hi, in order (the range is
\* halved so that the evaluation stays shallow)
RECURSIVE otsu_range(_, _, _, _)
otsu_range(st, lo, hi, px) ==
    IF lo = hi
    THEN otsu_step(st, lo, histogram(px, lo), Len(px), SumPixels(px))
    ELSE LET mid == (lo + hi) \div 2
             left == otsu_range(st, lo, mid, px)
         IN  CASE left.w_b >= 0 -> otsu_range(left, mid + 1, hi, px)

calculate_otsu_threshold_px(px) == otsu_range(OtsuStart, 0, 255, px).threshold

\* apply_threshold: `if p < threshold { 0 } else { 255 }`
apply_threshold_px(px, level) ==
    [i \in DOMAIN px |-> IF px[i] < level THEN 0 ELSE 255]

\* grey levels: the ends of the range, neighbours, and the middle
PixelLevels == {0, 1, 100, 128, 254, 255}

OtsuImages == UNION {[1..n -> PixelLevels] : n \in 1..MaxPixels}

\* lines 190-196 for the first threshold of the rung
OtsuBinarize ==
    /\ p_fn = "apply_threshold"
    /\ p_out.tag = "None"
    /\ LET otsu_threshold == calculate_otsu_threshold_px(p_in)
       IN  p_out' = Some([threshold |-> otsu_threshold,
                          thresholded |-> apply_threshold_px(p_in, otsu_threshold)])
    /\ UNCHANGED <<p_fn, p_in, notPure>>

OtsuInit ==
    /\ p_fn = "apply_threshold"
    /\ p_in \in OtsuImages
    /\ p_out = NoneVal

-----------------------------------------------------------------------------
(* nms and iou (ml_detection.rs) *)

\* iou as the fraction inter / (area_a + area_b - inter); the 1e-6 added to
\* the denominator in the source only keeps 0 / 0 from arising
iou(a, b) ==
    LET x1 == Max(a.x1, b.x1)
        y1 == Max(a.y1, b.y1)
        x2 == Min(a.x2, b.x2)
        y2 == Min(a.y2, b.y2)
        w == Max(x2 - x1, 0)
        h == Max(y2 - y1, 0)
        inter == w * h
        area_a == (a.x2 - a.x1) * (a.y2 - a.y1)
        area_b == (b.x2 - b.x1) * (b.y2 - b.y1)
    IN  Frac(inter, area_a + area_b - inter)

\* `iou(bi, bj) > iou_threshold` for whole-numbered corners: with a positive
\* denominator the 1e-6 cannot turn a strict inequality of whole numbers
FracAbove(q, t) == q.num * t.den > t.num * q.den

\* sort_by with the comparison turned round, so that the lowest score comes
\* first
RECURSIVE sort_by_score_ascending(_)
sort_by_score_ascending(boxes) ==
    IF boxes = <<>> THEN <<>>
    ELSE LET rest == sort_by_score_ascending(SubSeq(boxes, 1, Len(boxes) - 1))
             last == boxes[Len(boxes)]
             before == SelectSeq(rest, LAMBDA e : e.score <= last.score)
             after == SelectSeq(rest, LAMBDA e : e.score > last.score)
         IN  before \o <<last>> \o after

\* sort_by(|a, b| b.score.partial_cmp(&a.score)): highest score first, equal
\* scores in their order in the input
RECURSIVE sort_by_score(_)
sort_by_score(boxes) ==
    IF boxes = <<>> THEN <<>>
    ELSE LET rest == sort_by_score(SubSeq(boxes, 1, Len(boxes) - 1))
             last == boxes[Len(boxes)]
             before == SelectSeq(rest, LAMBDA e : e.score >= last.score)
             after == SelectSeq(rest, LAMBDA e : e.score < last.score)
         IN  before \o <<last>> \o after

\* the loop `for i in 0..sorted_boxes.len()` from index i on
RECURSIVE nms_from(_, _, _, _, _)
nms_from(sorted_boxes, i, suppress, kept, iou_threshold) ==
    IF i > Len(sorted_boxes) THEN kept
    ELSE IF suppress[i]
    THEN nms_from(sorted_boxes, i + 1, suppress, kept, iou_threshold)
    ELSE LET bi == sorted_boxes[i]
             marked == [j \in DOMAIN suppress |->
                           \/ suppress[j]
                           \/ /\ j > i
                              /\ FracAbove(iou(bi, sorted_boxes[j]), iou_threshold)]
         IN  nms_from(sorted_boxes, i + 1, marked, Append(kept, bi), iou_threshold)

nms(boxes, iou_threshold) ==
    LET sorted_boxes == sort_by_score(boxes)
    IN  nms_from(sorted_boxes, 1, [j \in DOMAIN sorted_boxes |-> FALSE], <<>>,
                 iou_threshold)

\* ml_detection.rs:114  nms(&detections, 0.45)
IouThreshold == Frac(45, 100)

\* boxes 4 wide and 4 high: neighbours one apart overlap by 0.6, two apart by
\* a third, the one at 10 touches none; the last has no area.  Scores in
\* hundredths, above the confidence threshold.
NmsBoxes ==
    {[x1 |-> x, y1 |-> 0, x2 |-> x + 4, y2 |-> 4, score |-> s] :
        x \in {0, 1, 2, 10}, s \in {60, 90}}
    \cup {[x1 |-> 1, y1 |-> 1, x2 |-> 1, y2 |-> 1, score |-> 90]}

NmsLists == UNION {[1..n -> NmsBoxes] : n \in 0..MaxBoxes}

Nms ==
    /\ p_fn = "nms"
    /\ p_out.tag = "None"
    /\ p_out' = Some(nms(p_in, IouThreshold))
    /\ UNCHANGED <<p_fn, p_in, notPure>>

NmsInit ==
    /\ p_fn = "nms"
    /\ p_in \in NmsLists
    /\ p_out = NoneVal

-----------------------------------------------------------------------------
(* merge_patterns on lists of finder patterns *)

\* centres three pixels apart in a row and two rows apart, module sizes of
\* one and two pixels (total widths 7 and 14)
MergePatterns ==
    {FinderPattern(x, y, Frac(t, 7)) : x \in {0, 3, 6}, y \in {0, 2}, t \in {7, 14}}

MergeLists == UNION {[1..n -> MergePatterns] : n \in 0..MaxPatterns}

Merge ==
    /\ p_fn = "merge_patterns"
    /\ p_out.tag = "None"
    /\ p_out' = Some(merge_patterns(p_in))
    /\ UNCHANGED <<p_fn, p_in, notPure>>

MergeInit ==
    /\ p_fn = "merge_patterns"
    /\ p_in \in MergeLists
    /\ p_out = NoneVal

-----------------------------------------------------------------------------
(* check_ratio on arrays of run lengths *)

\* the outer runs up to MaxRun pixels, the middle run up to three times that
RunArrays ==
    {<<a, b, c, d, e>> : a \in 0..MaxRun, b \in 0..MaxRun, c \in 0..(3 * MaxRun),
                         d \in 0..MaxRun, e \in 0..MaxRun}

CheckRatio ==
    /\ p_fn = "check_ratio"
    /\ p_out.tag = "None"
    /\ p_out' = Some(check_ratio(p_in))
    /\ UNCHANGED <<p_fn, p_in, notPure>>

CheckRatioInit ==
    /\ p_fn = "check_ratio"
    /\ p_in \in RunArrays
    /\ p_out = NoneVal

-----------------------------------------------------------------------------
(* ContentType::detect and PaymentParser::parse on the same text *)

\* a text with its first letter in upper case and the rest in lower case
Capitalized(s) ==
    IF s = "" THEN s
    ELSE ToUpperChar(Char(s, 1)) \o to_lowercase(SubSeq(s, 2, Len(s)))

CaseVariants(s) == {s, to_lowercase(s), to_uppercase(s), Capitalized(s)}

UrlTexts ==
    {head \o tail :
        head \in {"https://qr.nspk.ru/AS1", "http://qr.nspk.ru/AS1",
                  "https://example.com/qr.nspk.ru", "https://example.com/shop",
                  "https://example.com/pay"},
        tail \in {"", "?sum=100", "?sum=100&cur=USD"}}

StTexts == {"ST.00012|Name=Acme|Sum=5", "ST.00012", "STANDARD"}

\* EMV payloads, a text of 52 characters whose first length field is not a
\* number, and a text too short to be one
EmvTexts ==
    {i.content : i \in EmvPaymentInputs}
    \cup {"00zz" \o "000000000000000000000000000000000000000000000000", "000201"}

OtherTexts == {"Hello World", "tel:+79001234567", "WIFI:T:WPA;S:Net;;", "geo:55.7,37.6"}

ClassifyTexts ==
    UNION {CaseVariants(s) : s \in UrlTexts \cup StTexts \cup OtherTexts} \cup EmvTexts

\* lib.rs:200-202, with parse also called on what is not classified Payment
Classify ==
    /\ p_fn = "classify"
    /\ p_out.tag = "None"
    /\ p_out' = Some([content_type |-> detect_content_type(p_in),
                      payment |-> parse(p_in)])
    /\ UNCHANGED <<p_fn, p_in, notPure>>

ClassifyInit ==
    /\ p_fn = "classify"
    /\ p_in \in ClassifyTexts
    /\ p_out = NoneVal

-----------------------------------------------------------------------------
(* Specifications *)

InitDecode == DecodeInit /\ ScanIdle /\ FinderIdle /\ EmvIdle /\ PureIdle /\ InvIdle

NextDecode == CallRqrr \/ CallRxing \/ ReturnNotFound

SpecDecode == InitDecode /\ [][NextDecode]_vars

\* decode is one sequential call: it goes on while a step is left to take
SpecDecodeFair == SpecDecode /\ WF_vars(NextDecode)

Init == ScanInit /\ DecodeIdle /\ FinderIdle /\ EmvIdle /\ PureIdle /\ InvIdle

Next == ScanPreprocess \/ ScanDetect \/ DecodeRegion \/ FullImageDecode \/ ScanReturn

Spec == Init /\ [][Next]_vars

InitFinder == FinderInit /\ DecodeIdle /\ ScanIdle /\ EmvIdle /\ PureIdle /\ InvIdle

NextFinder == FinderPixel \/ FinderReturn

SpecFinder == InitFinder /\ [][NextFinder]_vars

InitEmv == EmvInit /\ DecodeIdle /\ ScanIdle /\ FinderIdle /\ PureIdle /\ InvIdle

NextEmv == EmvAppend \/ EmvAppendTag \/ EmvSeal \/ EmvTamper

SpecEmv == InitEmv /\ [][NextEmv]_vars

AllIdle == DecodeIdle /\ ScanIdle /\ FinderIdle /\ EmvIdle /\ InvIdle

InitInv == InvInit /\ DecodeIdle /\ ScanIdle /\ FinderIdle /\ EmvIdle /\ PureIdle

NextInv == InvCallRqrr \/ InvCallRxing \/ InvReturnNotFound

SpecInv == InitInv /\ [][NextInv]_vars

InitCrc == CrcInit0 /\ AllIdle

NextCrc == CrcByte

SpecCrc == InitCrc /\ [][NextCrc]_vars

InitEmvParse == EmvDataParseInit /\ AllIdle

NextEmvParse == EmvDataParse

SpecEmvParse == InitEmvParse /\ [][NextEmvParse]_vars

InitPay == PaymentParseInit /\ AllIdle

NextPay == PaymentParse

SpecPay == InitPay /\ [][NextPay]_vars

InitDetectors == (QrDetectInit \/ OnnxInit) /\ AllIdle

NextDetectors == QrDetectGroup \/ QrDetectReturn \/ OnnxBox \/ OnnxReturn

SpecDetectors == InitDetectors /\ [][NextDetectors]_vars

InitCorners == FindCornersInit /\ AllIdle

NextCorners == FindCorners

SpecCorners == InitCorners /\ [][NextCorners]_vars

InitProcess == ProcessInit /\ AllIdle

NextProcess == Process

SpecProcess == InitProcess /\ [][NextProcess]_vars

InitOtsu == OtsuInit /\ AllIdle

NextOtsu == OtsuBinarize

SpecOtsu == InitOtsu /\ [][NextOtsu]_vars

InitNms == NmsInit /\ AllIdle

NextNms == Nms

SpecNms == InitNms /\ [][NextNms]_vars

InitMerge == MergeInit /\ AllIdle

NextMerge == Merge

SpecMerge == InitMerge /\ [][NextMerge]_vars

InitRatio == CheckRatioInit /\ AllIdle

NextRatio == CheckRatio

SpecRatio == InitRatio /\ [][NextRatio]_vars

InitClassify == ClassifyInit /\ AllIdle

NextClassify == Classify

SpecClassify == InitClassify /\ [][NextClassify]_vars

-----------------------------------------------------------------------------
(* Claims about QRDecoder::decode, checked under SpecDecode *)

\* The transformed images of the canonical rung order, for an input image.
CanonicalImages(image) ==
    << <<>>,
       <<T("invert", 0)>>,
       <<T("contrast_stretch", 0), T("sharpen", 0)>>,
       <<T("contrast_stretch", 0), T("sharpen", 0), T("invert", 0)>>,
       <<T("pad", 20)>>,
       <<T("invert", 0), T("pad", 20)>>,
       <<T("rotate", 30)>>, <<T("rotate", 45)>>, <<T("rotate", 60)>>,
       <<T("threshold", image.otsu)>>,
       <<T("threshold", 64)>>, <<T("threshold", 96)>>, <<T("threshold", 128)>>,
       <<T("threshold", 160)>>, <<T("threshold", 192)>> >>
    \o (IF image.w > 400 \/ image.h > 400 THEN << <<T("downscale", 2)>> >> ELSE <<>>)

\* C1: the provider calls made so far are a prefix of the canonical order
\* (each transformed image offered to the two providers, always in the same
\* provider order); while decode runs every call so far has failed; a
\* successful call ends decode at once with that call's payload.
C1_CanonicalOrderFirstSuccess ==
    /\ Len(d_log) <= 2 * Len(CanonicalImages(d_img))
    /\ \A i \in 1..Len(d_log) :
          /\ d_log[i].image = CanonicalImages(d_img)[(i + 1) \div 2]
          /\ i > 2 => d_log[i].provider = d_log[i - 2].provider
          /\ i % 2 = 0 => d_log[i].provider # d_log[i - 1].provider
    /\ (d_ret = NoneVal /\ d_log # <<>>) => d_last.tag = "Err"
    /\ d_last.tag = "Ok" => d_ret = d_last
    /\ d_ret.tag = "Ok" => (d_log # <<>> /\ d_last = d_ret)
    /\ d_ret # NoneVal => ~ ENABLED (CallRqrr \/ CallRxing)

\* C1 witness: decode returned the payload of a call made in the rotation
\* rung, after every earlier call failed.
C1_Witness ==
    /\ d_ret.tag = "Ok"
    /\ Len(d_log) = 14
    /\ d_log[14].image = <<T("rotate", 30)>>

\* C2: a failed call (NotFound or DecodeFailed) that is not the last
\* applicable one leaves decode running with the next call enabled; decode
\* returns Err only when every applicable call has been made and failed, and
\* the error is NotFound.
C2_FailureNeverAborts ==
    /\ (d_last.tag = "Err" /\ Len(d_log) < 2 * Len(CanonicalImages(d_img)))
          => /\ d_ret = NoneVal
             /\ d_pc = Len(d_log) + 1
             /\ ENABLED (CallRqrr \/ CallRxing)
    /\ d_ret.tag = "Err"
          => /\ d_ret = Err("NotFound")
             /\ Len(d_log) = 2 * Len(CanonicalImages(d_img))
             /\ d_last.tag = "Err"

\* C2 witness: every applicable call was made, the downscale rung included,
\* and decode returned NotFound.
C2_Witness ==
    /\ d_ret = Err("NotFound")
    /\ Len(d_log) = 32

-----------------------------------------------------------------------------
(* Claims about QRScanner::scan_image, checked under Spec *)

\* C3: the best_payment of the returned ScanResult is None or a valid index
\* (from 0) into qr_codes of an entry whose content_type is Payment.
C3_BestPaymentValid ==
    s_result.tag = "Ok" =>
        LET r == s_result.val
        IN  \/ r.best_payment = NoneVal
            \/ /\ r.best_payment.val < Len(r.qr_codes)
               /\ r.qr_codes[r.best_payment.val + 1].content_type = "Payment"

AllDecodesFailed == \A i \in 1..Len(s_decoded) : s_decoded[i].result.tag = "Err"

RECURSIVE RegionEntries(_)
RegionEntries(k) ==
    IF k = 0 THEN <<>>
    ELSE IF s_decoded[k].result.tag = "Ok"
         THEN Append(RegionEntries(k - 1),
                     [content |-> s_decoded[k].result.val, bbox |-> s_detected[k].bbox])
         ELSE RegionEntries(k - 1)

ContentAndBox(entries) ==
    [i \in 1..Len(entries) |-> [content |-> entries[i].content, bbox |-> entries[i].bbox]]

WholeImage == <<0, 0, s_processed.w, s_processed.h>>

\* C7: when the finder-pattern search accepts no candidate region, detect
\* returns exactly one region, the whole processed image with bbox
\* [0,0,W,H]; the decoder is run on it, and a successful decode gives a
\* result entry with bbox [0,0,W,H].
C7_WholeImageWhenNoCandidate ==
    (s_phase \in {"loop", "finish", "done"} /\ s_cands = <<>>) =>
        /\ Len(s_detected) = 1
        /\ s_detected[1].bbox = WholeImage
        /\ s_detected[1].image = WholeImage
        /\ s_phase # "loop" =>
              /\ s_decoded # <<>>
              /\ \A i \in 1..Len(s_decoded) : s_decoded[i].image = WholeImage
        /\ \A i \in 1..Len(s_decoded) :
              s_decoded[i].result.tag = "Ok" =>
                  /\ Len(s_qr_codes) = 1
                  /\ s_qr_codes[1].bbox = WholeImage
                  /\ s_qr_codes[1].content = s_decoded[i].result.val

\* C7 witness: no candidate on a resized 2000x100 input, the whole 1000x50
\* image decoded, and the result entry carries bbox [0,0,1000,50].
C7_Witness ==
    /\ s_phase = "done"
    /\ s_cands = <<>>
    /\ s_gray.w = 2000
    /\ Len(s_result.val.qr_codes) = 1
    /\ s_result.val.qr_codes[1].bbox = <<0, 0, 1000, 50>>

-----------------------------------------------------------------------------
(* Claims about the finder scanline, checked under SpecFinder *)

\* The pixels of the current row scanned so far (the whole previous row when
\* a row has just ended).
ScannedRow ==
    IF f_x > 0 THEN SubSeq(f_img[f_y + 1], 1, f_x)
    ELSE IF f_y > 0 THEN f_img[f_y]
    ELSE <<>>

\* Run-length encoding of a row: <<[black, len], ...>>
RECURSIVE Runs(_)
Runs(row) ==
    IF row = <<>> THEN <<>>
    ELSE LET rest == Runs(SubSeq(row, 1, Len(row) - 1))
             b == row[Len(row)] < threshold
         IN  IF rest # <<>> /\ rest[Len(rest)].black = b
             THEN [rest EXCEPT ![Len(rest)].len = @ + 1]
             ELSE Append(rest, [black |-> b, len |-> 1])

\* The five runs black/white/black/white/black just completed by a white
\* pixel, if the scanned row ends that way.
CompletedFive ==
    LET r == Runs(ScannedRow)
        n == Len(r)
    IN  IF n >= 6 /\ ~ r[n].black /\ r[n].len = 1
        THEN Some(<<r[n - 5].len, r[n - 4].len, r[n - 3].len, r[n - 2].len, r[n - 1].len>>)
        ELSE NoneVal

\* C6: when five runs black/white/black/white/black have been completed on
\* a row, check_ratio has been evaluated on them; and the scan of an ideal
\* marker image returns at least one FinderPattern.
C6_FiveRunsAreChecked ==
    /\ CompletedFive # NoneVal =>
          \E i \in 1..Len(f_checked) : f_checked[i] = CompletedFive.val
    /\ (f_phase = "done" /\ f_img \in IdealMarkers) => f_result # <<>>

-----------------------------------------------------------------------------
(* Claims about EMV payloads, checked under SpecEmv *)

ends_with(s, suffix) ==
    Len(s) >= Len(suffix) /\ SubSeq(s, Len(s) - Len(suffix) + 1, Len(s)) = suffix

IsInvalidCrc(r) == r.tag = "Err" /\ r.err.kind = "InvalidCrc"

EmvShaped(content) == starts_with(content, "00") /\ Len(content) > EmvMinLen

\* C8: an EMV-shaped payload (starting with "00", longer than 50 characters)
\* whose tag-63 checksum is not the CRC of the preceding characters yields no
\* PaymentInfo from PaymentParser::parse.
C8_BadCrcIsParseFailure ==
    (e_phase \in {"sealed", "tampered"} /\ EmvShaped(e_raw) /\ IsInvalidCrc(e_check))
        => e_payment = NoneVal

\* the body B of a sealed payload B + checksum
SealedBody == SubSeq(e_raw, 1, Len(e_raw) - 4)

\* C9 as stated: for every B, validate_crc succeeds on B followed by
\* crc16_ccitt_kermit(B) as four uppercase hexadecimal digits.
C9_AnyBodyValidates ==
    e_phase = "sealed" => e_check = Ok("unit")

\* C9 amended: for every B that ends with the checksum record header "6304",
\* validate_crc succeeds on B followed by crc16_ccitt_kermit(B) as four
\* uppercase hexadecimal digits.
C9_TaggedBodyValidates ==
    (e_phase = "sealed" /\ ends_with(SealedBody, "6304")) => e_check = Ok("unit")

\* a sealed EMV-shaped payload whose checksum has a letter digit was accepted
C9_Witness ==
    /\ e_phase = "sealed"
    /\ ends_with(SealedBody, "6304")
    /\ EmvShaped(e_raw)
    /\ \E i \in (Len(e_raw) - 3)..Len(e_raw) : IndexOf(Char(e_raw, i), UpperAlpha) # 0
    /\ e_check = Ok("unit")

\* where the tampered payload differs from the accepted one
TamperedAt == CHOOSE i \in 1..Len(e_raw) : Char(e_raw, i) # Char(e_prev, i)
OldChar == Char(e_prev, TamperedAt)
NewChar == Char(e_raw, TamperedAt)

-----------------------------------------------------------------------------
(* Claims about crc16_ccitt_kermit, checked under SpecCrc *)

Poly == 4129   \* 0x1021

\* one bit, MSB first: shift left, and xor the polynomial in when the bit
\* shifted out was set; the value is truncated to 16 bits
BitStep(crc) ==
    IF crc >= 32768 THEN BitXor((crc * 2) % 65536, Poly) ELSE crc * 2

RECURSIVE BitSteps(_, _)
BitSteps(crc, n) ==
    IF n = 0 THEN crc
    ELSE LET next == BitStep(crc) IN CASE next \in U16 -> BitSteps(next, n - 1)

\* the bit-by-bit CRC-16 of a byte sequence: init 0xFFFF, no reflection, no
\* final xor
RECURSIVE Crc16Bitwise(_)
Crc16Bitwise(data) ==
    IF data = <<>> THEN 65535
    ELSE LET before == Crc16Bitwise(SubSeq(data, 1, Len(data) - 1))
         IN  CASE before \in U16 -> BitSteps(BitXor(before, data[Len(data)] * 256), 8)

\* C11: after any bytes, the crc of crc16_ccitt_kermit equals the bit-by-bit
\* MSB-first CRC-16 (polynomial 0x1021, initial value 0xFFFF, no reflection,
\* no final xor) of those bytes, and is a 16-bit value.
C11_CrcIsBitwiseCcittFalse ==
    p_fn = "crc16_ccitt_kermit" =>
        /\ p_out \in U16
        /\ p_out = Crc16Bitwise(p_in)

\* C11 witness: three bytes were consumed, the last with its top bit set
C11_Witness ==
    /\ p_fn = "crc16_ccitt_kermit"
    /\ Len(p_in) = 3
    /\ p_in[3] = 255
    /\ p_in[1] = 48
    /\ p_out = Crc16Bitwise(p_in)

-----------------------------------------------------------------------------
(* Claims about EmvData::parse, checked under SpecEmvParse *)

\* The TLV records met walking a text from its start: <<[tag, len, end]>>,
\* end being the offset just after the record; the walk stops where fewer
\* than four characters remain, a length is not a number, or a value
\* overruns the text.
RECURSIVE TlvRecords(_, _)
TlvRecords(raw, idx) ==
    IF idx + 4 > Len(raw) THEN <<>>
    ELSE LET n == ParseUsize(SubSeq(raw, idx + 3, idx + 4))
         IN  IF n = NoneVal \/ idx + 4 + n.val > Len(raw) THEN <<>>
             ELSE <<[tag |-> SubSeq(raw, idx + 1, idx + 2),
                     len |-> SubSeq(raw, idx + 3, idx + 4),
                     end |-> idx + 4 + n.val]>>
                  \o TlvRecords(raw, idx + 4 + n.val)

EmvParsed == p_fn = "EmvData::parse" /\ p_out # NoneVal

\* C12: EmvData::parse succeeds only if the last record of the TLV walk is
\* tag 63 with length 04 ending the payload, and the crc it returns is the
\* payload's last four characters.
C12_SuccessMeansFinalRecordIs63 ==
    (EmvParsed /\ p_out.tag = "Ok") =>
        LET recs == TlvRecords(p_in, 0)
        IN  /\ recs # <<>>
            /\ recs[Len(recs)].tag = "63"
            /\ recs[Len(recs)].len = "04"
            /\ recs[Len(recs)].end = Len(p_in)
            /\ p_out.val.crc = SubSeq(p_in, Len(p_in) - 3, Len(p_in))

-----------------------------------------------------------------------------
(* Claims about PaymentParser::parse, checked under SpecPay *)

PaymentParsed(scheme) ==
    p_fn = "PaymentParser::parse" /\ p_out # NoneVal /\ p_in.scheme = scheme

\* the amount q (num/den) is the number n / k
AmountIs(q, n, k) == q.num * k = n * q.den

\* C13 as stated: for an EMV payload whose tag 54 value V is a string of
\* digits, the parsed amount is V / 100.
C13_EmvAmountIsHundredth ==
    PaymentParsed("emv") =>
        /\ p_out.val.amount # NoneVal
        /\ AmountIs(p_out.val.amount.val, DecimalValue(p_in.v), 100)

\* C13 amended: for an EMV payload whose tag 54 value V is a string of
\* digits, the parsed amount is the number V itself (tag 54 is not divided
\* by 100).
C13_EmvAmountIsValue ==
    PaymentParsed("emv") =>
        /\ p_out.val.format = "EmvQR"
        /\ p_out.val.amount # NoneVal
        /\ AmountIs(p_out.val.amount.val, DecimalValue(p_in.v), 1)

\* C13 witness: the EMV payload with tag 54 value "170" parsed to amount 170
C13_Witness ==
    /\ PaymentParsed("emv")
    /\ p_in.v = "170"
    /\ p_out.val.amount = Some([num |-> 170, den |-> 1])

\* C14: for an ST. payload with a segment Sum=V and for an NSPK URL with a
\* parameter sum=V, V a string of digits, the parsed amount is V / 100; the
\* currency is RUB unless the URL has a cur parameter, whose value it then is.
C14_SumIsHundredthCurrencyRub ==
    (PaymentParsed("st") \/ PaymentParsed("sbp")) =>
        /\ p_out.val.amount # NoneVal
        /\ AmountIs(p_out.val.amount.val, DecimalValue(p_in.v), 100)
        /\ p_out.val.currency = (IF p_in.cur = NoneVal THEN Some("RUB") ELSE p_in.cur)

\* C14 witness: an NSPK URL with sum=107 and cur=USD parsed to 1.07 USD
C14_Witness ==
    /\ PaymentParsed("sbp")
    /\ p_in.v = "107"
    /\ p_in.cur = Some("USD")
    /\ p_out.val.amount = Some([num |-> 107, den |-> 100])
    /\ p_out.val.currency = Some("USD")

-----------------------------------------------------------------------------
(* Claims about payment parsing inside scan_image, checked under Spec *)

\* a text classified Payment for which PaymentParser::parse yields nothing
UnparsedPayment(content) ==
    detect_content_type(content) = "Payment" /\ parse(content) = NoneVal

\* the bbox of the image the i-th decode call was made on
DecodedBox(i) ==
    IF i <= Len(s_detected) THEN s_detected[i].bbox ELSE WholeImage

\* C15: every decoded text that is classified Payment and that
\* PaymentParser::parse yields nothing for still has its result entry, with
\* content_type Payment and payment None, and the scan returns Ok with it.
C15_UnparsedPaymentKeepsEntry ==
    /\ \A i \in 1..Len(s_decoded) :
          (s_decoded[i].result.tag = "Ok" /\ UnparsedPayment(s_decoded[i].result.val))
              => \E j \in 1..Len(s_qr_codes) :
                    /\ s_qr_codes[j].content = s_decoded[i].result.val
                    /\ s_qr_codes[j].bbox = DecodedBox(i)
                    /\ s_qr_codes[j].content_type = "Payment"
                    /\ s_qr_codes[j].payment = NoneVal
    /\ s_phase = "done" =>
          /\ s_result.tag = "Ok"
          /\ s_result.val.qr_codes = s_qr_codes

\* C15 witness: the second region decoded to a payment URL no parser takes,
\* and the returned result has its entry with payment None
C15_Witness ==
    /\ s_phase = "done"
    /\ Len(s_decoded) = 2
    /\ s_decoded[2].result = Ok("https://a.io/pay")
    /\ UnparsedPayment("https://a.io/pay")
    /\ \E j \in 1..Len(s_result.val.qr_codes) :
          /\ s_result.val.qr_codes[j].content = "https://a.io/pay"
          /\ s_result.val.qr_codes[j].content_type = "Payment"
          /\ s_result.val.qr_codes[j].payment = NoneVal

-----------------------------------------------------------------------------
(* Claims about inversion, checked under SpecInv *)

\* some provider read the unmodified image with these pixels
DecodesUnmodified(px) ==
    \E a \in i_memo : a.image = [px |-> px, ops |-> <<>>] /\ a.outcome.tag = "Ok"

\* C16: with providers that are functions of the image, once decode(I) and
\* decode(invert(I)) have returned: if a provider read I unmodified then
\* decode(invert(I)) succeeded, and if a provider read invert(I) unmodified
\* then decode(I) succeeded.
C16_InversionSymmetry ==
    i_run = 3 =>
        /\ DecodesUnmodified(i_px) => i_ret[2].tag = "Ok"
        /\ DecodesUnmodified(invert_pixels(i_px)) => i_ret[1].tag = "Ok"

\* C16 witness: rqrr failed on I and on invert(I) and rxing read I, so
\* decode(invert(I)) succeeded on its second rung, where it had to ask rqrr
\* and rxing about I again
C16_Witness ==
    /\ i_run = 3
    /\ i_px = <<100, 0>>
    /\ [provider |-> "rqrr", image |-> [px |-> i_px, ops |-> <<>>],
        outcome |-> Err("NotFound")] \in i_memo
    /\ [provider |-> "rxing", image |-> [px |-> i_px, ops |-> <<>>],
        outcome |-> Ok("Hello")] \in i_memo
    /\ [provider |-> "rxing", image |-> [px |-> <<155, 255>>, ops |-> <<>>],
        outcome |-> Err("NotFound")] \in i_memo
    /\ i_ret[2] = Ok("Hello")

-----------------------------------------------------------------------------
(* C17 *)

BoxInside(bbox, img) ==
    bbox[1] + bbox[3] <= img.w /\ bbox[2] + bbox[4] <= img.h

U32Inside(bbox, img) ==
    /\ ~add_overflows(bbox[1], bbox[3])
    /\ ~U32Gt(wrapping_add(bbox[1], bbox[3]), U32(img.w))
    /\ ~add_overflows(bbox[2], bbox[4])
    /\ ~U32Gt(wrapping_add(bbox[2], bbox[4]), U32(img.h))

\* C17: every region returned by QRDetector::detect or OnnxDetector::detect
\* for an image of size W x H has a bbox [x, y, w, h] with x + w <= W and
\* y + h <= H, wherever the finder patterns lie and whatever box the model
\* put out.
C17_BBoxWithinImage ==
    /\ (p_fn = "QRDetector::detect" /\ p_out.status = "returned") =>
           \A i \in DOMAIN p_out.results : BoxInside(p_out.results[i].bbox, p_in.img)
    /\ (p_fn = "OnnxDetector::detect" /\ p_out.status = "returned") =>
           \A i \in DOMAIN p_out.results : U32Inside(p_out.results[i].bbox, p_in.img)

\* the half of C17 about QRDetector::detect alone
C17_ExtractedInside ==
    (p_fn = "QRDetector::detect" /\ p_out.status = "returned") =>
        \A i \in DOMAIN p_out.results : BoxInside(p_out.results[i].bbox, p_in.img)

-----------------------------------------------------------------------------
(* C18 *)

FoundCorners == p_fn = "find_corners" /\ p_out.tag = "Ok" /\ p_out.val.tag = "Some"

\* C18: whenever find_corners returns four corners, the path through them in
\* the returned order [top-left, top-right, bottom-right, bottom-left] is a
\* simple quadrilateral: it does not meet itself, for every outline of four
\* corners that passes the acceptance test.
C18_CornersTraceSimpleQuad ==
    FoundCorners => IsSimpleQuad(p_out.val.val)

-----------------------------------------------------------------------------
(* C19 *)

\* the last box of the loop was pushed to qr_results
LastPushed ==
    p_fn = "OnnxDetector::detect" /\ p_in.last.tag = "Some" /\ p_in.last.val.pushed

LastRegion == p_out.results[Len(p_out.results)]

\* find_corners gave corners and find_homography a matrix that was normalized
\* and has an inverse
UsableHomography(last) ==
    /\ last.corners.tag = "Some"
    /\ last.h.tag = "Some"
    /\ last.h.val.normalized
    /\ last.h.val.invertible

C19_CropWithoutCornersOrMatrix ==
    (LastPushed /\ (p_in.last.val.corners.tag = "None" \/ p_in.last.val.h.tag = "None")) =>
        LastRegion.image.kind = "crop"

-----------------------------------------------------------------------------
(* C20 *)

Processed == p_fn = "ImageProcessor::process" /\ p_out.tag # "None"

Fits(img) == img.w <= MaxDimension /\ img.h <= MaxDimension

\* C20: for every input with at least one pixel, process returns an image
\* whose width and height are both at least 1 and at most 1000, and the
\* returned size is the size of the input exactly when both sides of the
\* input are at most 1000.
C20_ProcessedSizeBounded ==
    Processed =>
        /\ p_out.tag = "Ok"
        /\ p_out.val.w \in 1..MaxDimension
        /\ p_out.val.h \in 1..MaxDimension
        /\ (p_out.val = p_in) <=> Fits(p_in)

\* what does hold of process: a returned image is never larger than 1000 on
\* either side, and has the size of the input exactly when the input fits
C20_AtMostLimitSameWhenFits ==
    (Processed /\ p_out.tag = "Ok") =>
        /\ p_out.val.w <= MaxDimension
        /\ p_out.val.h <= MaxDimension
        /\ (p_out.val = p_in) <=> Fits(p_in)

-----------------------------------------------------------------------------
(* C21 *)

\* the ladder has reached the threshold rung
AtThresholdRung ==
    \E i \in DOMAIN d_log :
        d_log[i].image # <<>> /\ d_log[i].image[1].op = "threshold"

Providers == {"rqrr", "rxing"}

\* C21: before the ladder moves on to the threshold rung, the rotation rung
\* has offered to both providers the image rotated by +30, -30, +45, -45, +60
\* and -60 degrees.
C21_RotationBothSigns ==
    AtThresholdRung =>
        \A k \in DOMAIN angles : \A sign \in {1, -1} : \A provider \in Providers :
            \E i \in DOMAIN d_log :
                d_log[i] = Call(rotate_image(<<>>, sign * angles[k]), provider)

\* what the rotation rung does offer: the three positive rotations, to both
\* providers
C21_RotationPositiveOnly ==
    AtThresholdRung =>
        /\ \A k \in DOMAIN angles : \A provider \in Providers :
              \E i \in DOMAIN d_log :
                  d_log[i] = Call(rotate_image(<<>>, angles[k]), provider)
        /\ \A i \in DOMAIN d_log :
              (d_log[i].image # <<>> /\ d_log[i].image[1].op = "rotate") =>
                  d_log[i].image[1].arg > 0

-----------------------------------------------------------------------------
(* C22 *)

\* C22: on every image of the ladder rxing is called first, as the primary
\* decoder, and rqrr is called only after rxing has failed on that image.
C22_RxingFirst ==
    \A i \in DOMAIN d_log :
        d_log[i].provider = "rqrr" =>
            /\ i > 1
            /\ d_log[i - 1] = Call(d_log[i].image, "rxing")

\* the order decode has: on every image rqrr is called first and rxing only
\* after rqrr has failed on it; every rxing call follows directly on the rqrr
\* call on the same image, and a first call on an image is an rqrr call
C22_RqrrFirst ==
    \A i \in DOMAIN d_log :
        /\ d_log[i].provider = "rxing" =>
              /\ i > 1
              /\ d_log[i - 1] = Call(d_log[i].image, "rqrr")
        /\ (i = 1 \/ d_log[i - 1].image # d_log[i].image) =>
              d_log[i].provider = "rqrr"

-----------------------------------------------------------------------------
(* C23 *)

\* images made from the input by one transform
SingleTransforms ==
    {invert_image(<<>>), preprocess_image(<<>>),
     add_white_padding(<<>>, PaddingPx), downscale_image(<<>>, DownscaleFactor)}
    \cup {rotate_image(<<>>, angles[k]) : k \in DOMAIN angles}
    \cup {apply_threshold(<<>>, t) : t \in 0..255}

\* the two images made by a second transform
ComposedTransforms ==
    {invert_image(preprocess_image(<<>>)),
     add_white_padding(invert_image(<<>>), PaddingPx)}

ThresholdsTried ==
    {d_log[i].image[1].arg : i \in {j \in DOMAIN d_log :
        d_log[j].image # <<>> /\ d_log[j].image[1].op = "threshold"}}

\* C23: every image decode offers to a provider is the input itself, the
\* input under one rung's transform (contrast+sharpen, padding, rotation,
\* thresholding, downscale, inversion), or one of the two composed images -
\* the inverted contrast-enhanced image and the padded inverted image; no
\* rung works on the output of an earlier one, and the thresholds tried are
\* the Otsu threshold of the input, first, and the fixed ones.
C23_RungsWorkOnInput ==
    d_img # NoneVal =>
        /\ \A i \in DOMAIN d_log :
              d_log[i].image \in {<<>>} \cup SingleTransforms \cup ComposedTransforms
        /\ ThresholdsTried \subseteq
              {calculate_otsu_threshold(d_img)} \cup {fixed_thresholds[k] : k \in DOMAIN fixed_thresholds}
        /\ AtThresholdRung =>
              \E i \in DOMAIN d_log :
                  /\ d_log[i].image = apply_threshold(<<>>, calculate_otsu_threshold(d_img))
                  /\ \A j \in 1..(i - 1) : d_log[j].image \notin {apply_threshold(<<>>, t) : t \in 0..255}

\* every rung has been tried, the downscale of a large image included
C23_Witness ==
    /\ d_ret = Err(ExhaustedError)
    /\ \E i \in DOMAIN d_log : d_log[i].image = downscale_image(<<>>, DownscaleFactor)
    /\ \E i \in DOMAIN d_log : d_log[i].image \in ComposedTransforms

-----------------------------------------------------------------------------
(* C30 *)

\* the most provider calls decode may make on an image
CallBudget(image) ==
    IF image.w > DownscaleLimit \/ image.h > DownscaleLimit THEN 32 ELSE 30

-----------------------------------------------------------------------------
(* C24 *)

LevelsOf(px) == {px[i] : i \in DOMAIN px}

Binarized == p_fn = "apply_threshold" /\ p_out.tag = "Some"

\* C24: for every image with exactly two grey levels a < b, binarizing it at
\* the threshold calculate_otsu_threshold returns for it turns every a-pixel
\* into 0 and every b-pixel into 255.
C24_OtsuSeparatesTwoLevels ==
    (Binarized /\ Cardinality(LevelsOf(p_in)) = 2) =>
        LET a == MinOf(LevelsOf(p_in))
            b == MaxOf(LevelsOf(p_in))
        IN  \A i \in DOMAIN p_in :
                /\ p_in[i] = a => p_out.val.thresholded[i] = 0
                /\ p_in[i] = b => p_out.val.thresholded[i] = 255

\* what the code does with two grey levels a < b: the threshold is a, and
\* every pixel of the binarized image is 255
C24_TwoLevelsTurnWhite ==
    (Binarized /\ Cardinality(LevelsOf(p_in)) = 2) =>
        /\ p_out.val.threshold = MinOf(LevelsOf(p_in))
        /\ \A i \in DOMAIN p_in : p_out.val.thresholded[i] = 255

-----------------------------------------------------------------------------
(* C25 *)

NmsDone == p_fn = "nms" /\ p_out.tag = "Some"

Overlap(a, b) == FracAbove(iou(a, b), IouThreshold)

\* C25: nms returns boxes in non-increasing order of score, no two returned
\* boxes have an IoU above the threshold, and every box of the input that is
\* not returned has an IoU above the threshold with a returned box whose
\* score is at least its own; so a box of the highest score is returned
\* first.
C25_NmsKeepsCover ==
    NmsDone =>
        LET kept == p_out.val
        IN  /\ \A i, j \in DOMAIN kept : i < j => kept[i].score >= kept[j].score
            /\ \A i, j \in DOMAIN kept : i # j => ~Overlap(kept[i], kept[j])
            /\ \A n \in DOMAIN p_in :
                  (\A k \in DOMAIN kept : kept[k] # p_in[n]) =>
                      \E k \in DOMAIN kept :
                          /\ Overlap(kept[k], p_in[n])
                          /\ kept[k].score >= p_in[n].score
            /\ p_in # <<>> =>
                  /\ kept # <<>>
                  /\ \A n \in DOMAIN p_in : kept[1].score >= p_in[n].score

\* a box was suppressed and a box of lower score was kept
C25_Witness ==
    /\ NmsDone
    /\ Len(p_in) = 3
    /\ Len(p_out.val) = 2
    /\ p_out.val[1].score > p_out.val[2].score
    /\ \E n \in DOMAIN p_in : \A k \in DOMAIN p_out.val : p_out.val[k] # p_in[n]

-----------------------------------------------------------------------------
(* C26 *)

\* the cross products of adjacent edges of q all have the same sign
IsConvexQuad(q) ==
    LET turn(i) == Cross(q[i], q[(i % 4) + 1], q[((i + 1) % 4) + 1])
    IN  \/ \A i \in 1..4 : turn(i) > 0
        \/ \A i \in 1..4 : turn(i) < 0

\* the contour find_corners took its corners from
AcceptedContour ==
    LET simplified == p_in.simplified
        accepted == {i \in DOMAIN simplified :
                        /\ Len(simplified[i]) = 4
                        /\ 5 * polygon_area2(simplified[i]) > p_in.img.w * p_in.img.h
                        /\ is_convex(simplified[i])}
    IN  simplified[MinOf(accepted)]

\* C26: find_corners returns corners only for a simplified contour of four
\* vertices that is convex and whose area exceeds a tenth of the area of the
\* crop; a contour with a reflex vertex or one that crosses itself is never
\* accepted.
C26_AcceptedIsConvex ==
    FoundCorners =>
        /\ Len(AcceptedContour) = 4
        /\ 5 * polygon_area2(AcceptedContour) > p_in.img.w * p_in.img.h
        /\ IsConvexQuad(AcceptedContour)
        /\ IsSimpleQuad(AcceptedContour)

\* what the code does keep: four vertices, more than a tenth of the crop, no
\* crossing among the outlines that border tracing delivers
C26_AcceptedIsLargeQuad ==
    FoundCorners =>
        /\ Len(AcceptedContour) = 4
        /\ 5 * polygon_area2(AcceptedContour) > p_in.img.w * p_in.img.h
        /\ IsSimpleQuad(AcceptedContour)

-----------------------------------------------------------------------------
(* C27 *)

MergeDone == p_fn = "merge_patterns" /\ p_out.tag = "Some"

\* pattern j starts an output pattern: no earlier starting pattern is close
\* to it
RECURSIVE IsSeed(_, _)
IsSeed(patterns, j) ==
    \A i \in 1..(j - 1) : IsSeed(patterns, i) => ~CloseTo(patterns[i], patterns[j])

\* the starting pattern that takes pattern j: the first one close to it, or j
Owner(patterns, j) ==
    IF IsSeed(patterns, j) THEN j
    ELSE MinOf({i \in 1..(j - 1) : IsSeed(patterns, i) /\ CloseTo(patterns[i], patterns[j])})

Seeds(patterns) == {j \in DOMAIN patterns : IsSeed(patterns, j)}

\* the k-th starting pattern, from 1
RECURSIVE NthSeed(_, _)
NthSeed(patterns, k) ==
    IF k = 1 THEN MinOf(Seeds(patterns))
    ELSE MinOf({j \in Seeds(patterns) : j > NthSeed(patterns, k - 1)})

\* centre (cut to whole pixels) and module size averaged over the members
AverageOf(patterns, members) ==
    LET count == Cardinality(members)
        size == SizeSum(patterns, members)
    IN  FinderPattern(SumOver(patterns, members, "center_x") \div count,
                      SumOver(patterns, members, "center_y") \div count,
                      Frac(size.num, size.den * count))

\* every pattern goes to one output pattern, the one of its owner, and the
\* output patterns are the averages of what their owners took
OutputsAreOwnerAverages ==
    /\ Len(p_out.val) = Cardinality(Seeds(p_in))
    /\ \A k \in DOMAIN p_out.val :
          p_out.val[k] =
              AverageOf(p_in, {j \in DOMAIN p_in : Owner(p_in, j) = NthSeed(p_in, k)})

\* C27 as stated: after merge_patterns any two patterns of the input whose
\* centres lie within twice the module size of the one seen first are in the
\* same output pattern, whose centre and module size are the averages of its
\* members, and every pattern contributes to exactly one output pattern.
C27_ClosePairsShareOutput ==
    MergeDone =>
        /\ OutputsAreOwnerAverages
        /\ \A i, j \in DOMAIN p_in :
              (i < j /\ CloseTo(p_in[i], p_in[j])) => Owner(p_in, i) = Owner(p_in, j)

\* C27, amended: merge_patterns takes the patterns in order; a pattern not
\* yet merged starts an output pattern and takes every later, not yet merged
\* pattern within twice its own module size.  Every pattern contributes to
\* exactly one output pattern, whose centre (cut to whole pixels) and module
\* size are the averages of its members; two patterns close to each other
\* share an output pattern when the earlier one started it and the later one
\* was not taken before.
C27_SeedsTakeCloseLaterPatterns ==
    MergeDone =>
        /\ OutputsAreOwnerAverages
        /\ \A i, j \in DOMAIN p_in :
              (/\ i < j
               /\ IsSeed(p_in, i)
               /\ CloseTo(p_in[i], p_in[j])
               /\ \A s \in 1..(i - 1) : IsSeed(p_in, s) => ~CloseTo(p_in[s], p_in[j]))
                  => Owner(p_in, j) = i

\* a chain: the second is taken by the first, the third is close to the
\* second only and stays alone
C27_Witness ==
    /\ MergeDone
    /\ Len(p_in) = 3
    /\ Len(p_out.val) = 2
    /\ CloseTo(p_in[1], p_in[2])
    /\ CloseTo(p_in[2], p_in[3])
    /\ ~CloseTo(p_in[1], p_in[3])

-----------------------------------------------------------------------------
(* C28 *)

RatioDone == p_fn = "check_ratio" /\ p_out.tag = "Some"

\* run i is within reach of its share: |count - expected * total / 7| against
\* ratio_tolerance * total / 7, both times 7 * ratio_tolerance.den
Excess(counts, i) ==
    Abs(7 * counts[i] - expected[i] * Sum5(counts)) * ratio_tolerance.den
        - Sum5(counts) * ratio_tolerance.num

\* C28: check_ratio accepts five run lengths exactly when their total is at
\* least 7 and each run differs from its share (1, 1, 3, 1, 1 times total / 7)
\* by at most ratio_tolerance times total / 7; so with the tolerance 0.5 it
\* accepts [k, k, 3k, k, k] for every k >= 1 and rejects five equal runs.
C28_AcceptsExactlyWithinTolerance ==
    RatioDone =>
        /\ p_out.val <=> (Sum5(p_in) >= 7 /\ \A i \in 1..5 : Excess(p_in, i) <= 0)
        /\ (\E k \in 1..MaxRun : p_in = <<k, k, 3 * k, k, k>>) => p_out.val
        /\ (\E c \in 0..MaxRun : p_in = <<c, c, c, c, c>>) => ~p_out.val

\* what holds of check_ratio: nothing under 7 pixels or with a run further
\* than the tolerance from its share is accepted, everything of at least 7
\* pixels with every run nearer than the tolerance is, and so are the ideal
\* arrays, while five equal runs are not
C28_AcceptsInsideRejectsOutside ==
    RatioDone =>
        /\ p_out.val => (Sum5(p_in) >= 7 /\ \A i \in 1..5 : Excess(p_in, i) <= 0)
        /\ (Sum5(p_in) >= 7 /\ \A i \in 1..5 : Excess(p_in, i) < 0) => p_out.val
        /\ (\E k \in 1..MaxRun : p_in = <<k, k, 3 * k, k, k>>) => p_out.val
        /\ (\E c \in 0..MaxRun : p_in = <<c, c, c, c, c>>) => ~p_out.val

-----------------------------------------------------------------------------
(* C29 *)

Classified == p_fn = "classify" /\ p_out.tag = "Some"

\* the three ways the classifier comes to Payment that the parser knows
IsNspkUrl(content) ==
    LET content_lower == to_lowercase(content)
    IN  /\ starts_with(content_lower, "http://") \/ starts_with(content_lower, "https://")
        /\ contains(content_lower, "qr.nspk.ru")

IsStText(content) == starts_with(to_lowercase(content), "st.")

IsEmvText(content) == starts_with(content, "00") /\ Len(content) > EmvMinLen

ParsedAs(format) ==
    p_out.val.payment.tag = "Some" /\ p_out.val.payment.val.format = format

\* C29: the classifier and the payment parser agree: a text classified
\* Payment as an http(s) URL containing qr.nspk.ru, as a text beginning with
\* ST. or as an EMV payload is parsed to a PaymentInfo of that format, in
\* whatever letter case the scheme or prefix is written; and every text the
\* parser returns a PaymentInfo for is classified Payment.
C29_ClassifierAndParserAgree ==
    Classified =>
        /\ (p_out.val.content_type = "Payment" /\ IsNspkUrl(p_in)) => ParsedAs("SbpRussia")
        /\ (p_out.val.content_type = "Payment" /\ IsStText(p_in)) => ParsedAs("StRussia")
        /\ (p_out.val.content_type = "Payment" /\ IsEmvText(p_in)) => ParsedAs("EmvQR")
        /\ p_out.val.payment.tag = "Some" => p_out.val.content_type = "Payment"

\* the direction that holds: what the parser returns a PaymentInfo for is
\* classified Payment, and the prefixes as the parser spells them are parsed
\* with their format
C29_ParsedIsPayment ==
    Classified =>
        /\ p_out.val.payment.tag = "Some" => p_out.val.content_type = "Payment"
        /\ (starts_with(p_in, "https://qr.nspk.ru") \/ starts_with(p_in, "http://qr.nspk.ru"))
              => (p_out.val.content_type = "Payment" /\ ParsedAs("SbpRussia"))
        /\ (starts_with(p_in, "ST.") \/ starts_with(p_in, "st."))
              => (p_out.val.content_type = "Payment" /\ ParsedAs("StRussia"))

====
